---- MODULE Spec2Model ----
(***************************************************************************)
(* Response-recovery pipeline (LLMInterface.query_json) and the reasoning  *)
(* state machine (ReasoningStateMachine, T1ReasoningEngine.reason) of      *)
(* agentic_reasoning_system.py.                                            *)
(*                                                                         *)
(* Numbers with one decimal (confidences, thresholds) are kept in tenths:  *)
(* 0.6 is 6, 0.7 is 7, 1.0 is 10.                                          *)
(***************************************************************************)
EXTENDS Integers, Sequences, FiniteSets, TLC

\* ------------------------------------------------------------------------
\* Bounds of the model
\* ------------------------------------------------------------------------
\* number of reason() coroutines that may be alive on one engine
NumRuns == 2
\* number of reason() calls made on the engine in one behaviour
MaxCalls == 2
\* longest transition log from which the harness still calls a transition
MaxHist == 2
\* longest text, in characters, handed to a parsing helper called on its own
MaxLen == 4

\* ------------------------------------------------------------------------
\* Program constants
\* ------------------------------------------------------------------------
\* PERFORMANCE_CONFIG['json_parsing_retries']
max_retries == 3
\* confidence threshold of the fast pass (0.6)
FastThreshold == 6
\* complexity level from which metacognitive evaluation is entered
HighComplexity == 4
\* number of members of ReasoningState
NumStates == 11

\* ------------------------------------------------------------------------
\* ReasoningState
\* ------------------------------------------------------------------------
IDLE == "idle"
PARSING_INPUT == "parsing_input"
REPRESENTATION_MAPPING == "representation_mapping"
FAST_PROCESSING == "fast_processing"
SLOW_PROCESSING == "slow_processing"
METACOGNITIVE_EVALUATION == "metacognitive_evaluation"
CAUSAL_ANALYSIS == "causal_analysis"
GENERATING_RESPONSE == "generating_response"
SELF_VERIFICATION == "self_verification"
COMPLETE == "complete"
ERROR == "error"

ReasoningState ==
  { IDLE, PARSING_INPUT, REPRESENTATION_MAPPING, FAST_PROCESSING,
    SLOW_PROCESSING, METACOGNITIVE_EVALUATION, CAUSAL_ANALYSIS,
    GENERATING_RESPONSE, SELF_VERIFICATION, COMPLETE, ERROR }

\* the states at which the loop of reason() stops
Terminal == { COMPLETE, ERROR }

\* ------------------------------------------------------------------------
\* Python values that flow through the pipeline
\* ------------------------------------------------------------------------
\* Field values are integers: a number with one decimal is its tenths, and
\* the other values a field can take are the codes below.
\* a key that a dict does not hold
Absent == -1
\* a value that float() and int() reject, such as the string "Low"
NotANumber == -2
\* the empty string
EmptyStr == 0
\* a non-empty string written by the generator
SomeText == 1
\* "JSON parsing failed - using fallback response"
FallbackSolution == 2
\* "Failed to parse JSON response"
AggressiveSolution == 3
\* "json_parsing_failed"
JsonParsingFailed == 4
\* "Error: <error_message>"
ErrorReason == 5

\* the keys of a parsed dict that the stages read; every other key is
\* irrelevant to control
NoFields ==
  [ error |-> Absent, solution |-> Absent, confidence |-> Absent,
    complexity_level |-> Absent, final_solution |-> Absent,
    confidence_assessment |-> Absent ]

\* a non-empty dict; src tells who built it: "data" parsed from the
\* generator's text, "aggressive" synthesised by _aggressive_json_fix,
\* "fallback" built by _create_fallback_response
Dict(src, f) == [ tag |-> "dict", src |-> src, f |-> f ]
EmptyDict == [ tag |-> "emptydict", src |-> "data", f |-> NoFields ]
NonDict == [ tag |-> "nondict", src |-> "data", f |-> NoFields ]
None == [ tag |-> "none", src |-> "none", f |-> NoFields ]

Last(s) == s[Len(s)]
Front(s) == SubSeq(s, 1, Len(s) - 1)

\* the outcome of a call: a value, or an exception class
Ok(v) == [ exc |-> "none", val |-> v ]
Raise(e) == [ exc |-> e, val |-> None ]

\* any value that was parsed counts, an empty dict or a list included
Truthy_any_value(v) == v.tag # "none"

\* isinstance(result, dict) and result
Truthy(v) == v.tag = "dict"

\* ------------------------------------------------------------------------
\* The parsing helpers on texts of characters.  A text is a sequence of
\* one-character strings; the letter a, the digit 1 and the blank are the
\* members of their character classes that the texts are written with.
\* ------------------------------------------------------------------------
\* all texts over chars of at most n characters
BoundedTexts(chars, n) == UNION { [ 1..k -> chars ] : k \in 0..n }

\* str.find(c) counted from 1, 0 when c does not occur
find(response, c) ==
  IF \E i \in 1..Len(response) : response[i] = c
    THEN CHOOSE i \in 1..Len(response) :
           /\ response[i] = c
           /\ \A j \in 1..(i - 1) : response[j] # c
    ELSE 0

\* the loop of _parse_relaxed_json, which counts every brace
RECURSIVE brace_scan_unaware(_, _, _, _)
brace_scan_unaware(response, i, brace_count, in_string) ==
  IF i > Len(response) THEN 0
  ELSE IF response[i] = "{"
    THEN brace_scan_unaware(response, i + 1, brace_count + 1, FALSE)
  ELSE IF response[i] = "}"
    THEN IF brace_count - 1 = 0
           THEN i
           ELSE brace_scan_unaware(response, i + 1, brace_count - 1, FALSE)
  ELSE brace_scan_unaware(response, i + 1, brace_count, FALSE)

\* the while loop of _extract_json_object from index i on: the index of the
\* brace that closes the object, 0 when the text ends first
RECURSIVE brace_scan(_, _, _, _)
brace_scan(response, i, brace_count, in_string) ==
  IF i > Len(response) THEN 0
  ELSE IF in_string
    THEN IF response[i] = "\\"
           THEN brace_scan(response, i + 2, brace_count, TRUE)
         ELSE IF response[i] = "\""
           THEN brace_scan(response, i + 1, brace_count, FALSE)
         ELSE brace_scan(response, i + 1, brace_count, TRUE)
  ELSE IF response[i] = "\""
    THEN brace_scan(response, i + 1, brace_count, TRUE)
  ELSE IF response[i] = "{"
    THEN brace_scan(response, i + 1, brace_count + 1, FALSE)
  ELSE IF response[i] = "}"
    THEN IF brace_count - 1 = 0
           THEN i
           ELSE brace_scan(response, i + 1, brace_count - 1, FALSE)
  ELSE brace_scan(response, i + 1, brace_count, FALSE)

\* _extract_json_object up to json_str = response[start_idx:i+1]: the span
\* it selects, or the ValueError it raises
find_json_str(response) ==
  LET start_idx == find(response, "{")
      end_idx == IF start_idx = 0
                   THEN 0
                   ELSE brace_scan(response, start_idx, 0, FALSE)
  IN  IF end_idx = 0
        THEN [ fn |-> "_extract_json_object", exc |-> "ValueError",
               start_idx |-> start_idx, end_idx |-> 0, json_str |-> << >> ]
        ELSE [ fn |-> "_extract_json_object", exc |-> "none",
               start_idx |-> start_idx, end_idx |-> end_idx,
               json_str |-> SubSeq(response, start_idx, end_idx) ]

\* the placeholders of _fix_json_string, each one a single token of the text
ESCAPED_QUOTE == "___ESCAPED_QUOTE___"
ESCAPED_SINGLE_QUOTE == "___ESCAPED_SINGLE_QUOTE___"

\* [a-zA-Z_], which the placeholders are made of, and [a-zA-Z0-9_]
Letter(c) == c \in { "a", ESCAPED_QUOTE, ESCAPED_SINGLE_QUOTE }
Word(c) == Letter(c) \/ c = "1"

\* the index at which a greedy \s*, [a-zA-Z0-9_]* or [^"]* that starts at i
\* stops
RECURSIVE SkipSpaces(_, _)
SkipSpaces(s, i) ==
  IF i <= Len(s) /\ s[i] = " " THEN SkipSpaces(s, i + 1) ELSE i

RECURSIVE SkipWord(_, _)
SkipWord(s, i) ==
  IF i <= Len(s) /\ Word(s[i]) THEN SkipWord(s, i + 1) ELSE i

RECURSIVE SkipNonQuote(_, _)
SkipNonQuote(s, i) ==
  IF i <= Len(s) /\ s[i] # "\"" THEN SkipNonQuote(s, i + 1) ELSE i

\* str.replace(old, new)
RECURSIVE Replace(_, _, _)
Replace(s, old, new) ==
  IF Len(s) < Len(old) THEN s
  ELSE IF SubSeq(s, 1, Len(old)) = old
    THEN new \o Replace(SubSeq(s, Len(old) + 1, Len(s)), old, new)
  ELSE << s[1] >> \o Replace(Tail(s), old, new)

\* re.sub(r',(\s*[}\]])', r'\1', json_str) from index i on
RECURSIVE remove_trailing_commas(_, _)
remove_trailing_commas(s, i) ==
  IF i > Len(s) THEN << >>
  ELSE LET j == SkipSpaces(s, i + 1)
       IN  IF s[i] = "," /\ j <= Len(s) /\ s[j] \in { "}", "]" }
             THEN SubSeq(s, i + 1, j) \o remove_trailing_commas(s, j + 1)
             ELSE << s[i] >> \o remove_trailing_commas(s, i + 1)

\* the inner while loop of convert_single_quoted_strings: the index of the
\* closing single quote, or an index past the end
RECURSIVE find_closing_quote(_, _)
find_closing_quote(t, i) ==
  IF i <= Len(t) /\ t[i] # "'"
    THEN IF t[i] = "\\"
           THEN find_closing_quote(t, i + 2)
           ELSE find_closing_quote(t, i + 1)
    ELSE i

\* convert_single_quoted_strings from index i on
RECURSIVE convert_single_quoted_strings(_, _)
convert_single_quoted_strings(t, i) ==
  IF i > Len(t) THEN << >>
  ELSE IF t[i] = "'"
    THEN LET j == find_closing_quote(t, i + 1)
         IN  IF j <= Len(t)
               THEN << "\"" >>
                      \o Replace(SubSeq(t, i + 1, j - 1), << "\"" >>,
                                 << "\\", "\"" >>)
                      \o << "\"" >>
                      \o convert_single_quoted_strings(t, j + 1)
               ELSE << "'" >> \o convert_single_quoted_strings(t, i + 1)
  ELSE << t[i] >> \o convert_single_quoted_strings(t, i + 1)

\* re.sub(r'([{,]\s*)([a-zA-Z_][a-zA-Z0-9_]*)(\s*:)', r'\1"\2"\3', json_str)
\* from index i on
RECURSIVE quote_keys(_, _)
quote_keys(s, i) ==
  IF i > Len(s) THEN << >>
  ELSE LET j == SkipSpaces(s, i + 1)
           k == SkipWord(s, j + 1)
           m == SkipSpaces(s, k)
       IN  IF /\ s[i] \in { "{", "," }
              /\ j <= Len(s)
              /\ Letter(s[j])
              /\ m <= Len(s)
              /\ s[m] = ":"
             THEN SubSeq(s, i, j - 1) \o << "\"" >> \o SubSeq(s, j, k - 1)
                    \o << "\"" >> \o SubSeq(s, k, m) \o quote_keys(s, m + 1)
             ELSE << s[i] >> \o quote_keys(s, i + 1)

\* re.sub(r'(:\s*")([^"]*)"(\s*[,}\]])', fix_inner_quotes, json_str) from
\* index i on; fix_inner_quotes returns group 1, a double quote, the value
\* (which holds no double quote to escape), a double quote and group 3
RECURSIVE fix_inner_quotes(_, _)
fix_inner_quotes(s, i) ==
  IF i > Len(s) THEN << >>
  ELSE LET j == SkipSpaces(s, i + 1)
           k == SkipNonQuote(s, j + 1)
           m == SkipSpaces(s, k + 1)
       IN  IF /\ s[i] = ":"
              /\ j <= Len(s)
              /\ s[j] = "\""
              /\ k <= Len(s)
              /\ m <= Len(s)
              /\ s[m] \in { ",", "}", "]" }
             THEN SubSeq(s, i, j) \o << "\"" >> \o SubSeq(s, j + 1, k - 1)
                    \o << "\"" >> \o SubSeq(s, k + 1, m)
                    \o fix_inner_quotes(s, m + 1)
             ELSE << s[i] >> \o fix_inner_quotes(s, i + 1)

\* _fix_json_string: its six steps in order
_fix_json_string(json_str) ==
  LET s1 == remove_trailing_commas(json_str, 1)
      s2 == Replace(Replace(s1, << "\\", "\"" >>, << ESCAPED_QUOTE >>),
                    << "\\", "'" >>, << ESCAPED_SINGLE_QUOTE >>)
      s3 == convert_single_quoted_strings(s2, 1)
      s4 == quote_keys(s3, 1)
      s5 == Replace(Replace(s4, << ESCAPED_QUOTE >>, << "\\", "\"" >>),
                    << ESCAPED_SINGLE_QUOTE >>, << "'" >>)
  IN  fix_inner_quotes(s5, 1)

\* json.loads, string: the index after the closing quote of the string
\* whose first character is at i, 0 when there is no well-formed string
RECURSIVE json_string_end(_, _)
json_string_end(s, i) ==
  IF i > Len(s) THEN 0
  ELSE IF s[i] = "\"" THEN i + 1
  ELSE IF s[i] = "\\"
    THEN IF i + 1 <= Len(s)
           THEN IF s[i + 1] \in { "\"", "\\" }
                  THEN json_string_end(s, i + 2)
                  ELSE 0
           ELSE 0
  ELSE json_string_end(s, i + 1)

\* json.loads, number: the index after the digits that start at i
RECURSIVE json_number_end(_, _)
json_number_end(s, i) ==
  IF i <= Len(s)
    THEN IF s[i] = "1" THEN json_number_end(s, i + 1) ELSE i
    ELSE i

\* json.loads, value and members of an object: the index after the value
\* that starts at i (after the members and the closing brace when the
\* first key starts at j), 0 when there is none
RECURSIVE json_value_end(_, _)
RECURSIVE json_members_end(_, _)
json_value_end(s, i) ==
  IF i > Len(s) THEN 0
  ELSE IF s[i] = "\"" THEN json_string_end(s, i + 1)
  ELSE IF s[i] = "1" THEN json_number_end(s, i + 1)
  ELSE IF s[i] = "{"
    THEN LET j == SkipSpaces(s, i + 1)
         IN  IF j > Len(s) THEN 0
             ELSE IF s[j] = "}" THEN j + 1
             ELSE json_members_end(s, j)
  ELSE 0

json_members_end(s, j) ==
  IF j > Len(s) THEN 0
  ELSE IF s[j] # "\"" THEN 0
  ELSE LET k == json_string_end(s, j + 1)
           m == SkipSpaces(s, k)
           v == json_value_end(s, SkipSpaces(s, m + 1))
           n == SkipSpaces(s, v)
       IN  IF k = 0 THEN 0
           ELSE IF m > Len(s) THEN 0
           ELSE IF s[m] # ":" THEN 0
           ELSE IF v = 0 THEN 0
           ELSE IF n > Len(s) THEN 0
           ELSE IF s[n] = "}" THEN n + 1
           ELSE IF s[n] = ","
             THEN json_members_end(s, SkipSpaces(s, n + 1))
           ELSE 0

\* json.loads of a text without brackets: what it returns, "err" when it
\* raises JSONDecodeError
json_loads_text(s) ==
  LET i == SkipSpaces(s, 1)
      e == json_value_end(s, i)
  IN  IF e = 0 THEN "err"
      ELSE IF SkipSpaces(s, e) # Len(s) + 1 THEN "err"
      ELSE IF s[i] # "{" THEN "nondict"
      ELSE IF s[SkipSpaces(s, i + 1)] = "}" THEN "emptydict"
      ELSE "dict"

\* ------------------------------------------------------------------------
\* Texts the GenerationClient can return.  A text is described by what the
\* primitives of the pipeline observe on it:
\*   loads      json.loads(r.strip())
\*   scan       the brace scan of _extract_json_object
\*   spanLoads  json.loads of the scanned span
\*   spanFixed  json.loads(_fix_json_string(span))
\*   spanAggr   the json.loads inside _aggressive_json_fix(span)
\*   clean      json.loads(_clean_json_response(r))
\*   fence      the regex and json.loads of _extract_from_code_blocks
\*   fix        the two json.loads of _fix_and_parse_json
\*   fixAggr    the json.loads inside its final _aggressive_json_fix
\*   mixed      _extract_json_from_mixed_content
\*   relaxed    _parse_relaxed_json
\*   ws         json.loads after whitespace replacement
\*   data       the fields of the object the text encodes
\*   conf_hint  first number after confidence/score in the raw text
\*   sol_hint   first text after solution/answer in the raw text
\* ------------------------------------------------------------------------
D_good ==
  [ NoFields EXCEPT !.solution = SomeText, !.confidence = 9,
      !.complexity_level = 5, !.final_solution = SomeText,
      !.confidence_assessment = 8 ]
D_weak ==
  [ NoFields EXCEPT !.solution = SomeText, !.confidence = 6,
      !.complexity_level = 3, !.final_solution = SomeText ]
D_odd ==
  [ NoFields EXCEPT !.solution = EmptyStr, !.confidence = NotANumber,
      !.complexity_level = NotANumber ]
D_bare == NoFields

\* {"solution": "ok", "confidence": 0.9, ...}: well-formed
T_valid(id, d) ==
  [ id |-> id, loads |-> "dict", scan |-> "found", spanLoads |-> "dict",
    spanFixed |-> "err", spanAggr |-> "dict", clean |-> "dict",
    fence |-> "nomatch", fix |-> "err", fixAggr |-> "err",
    mixed |-> "dict", relaxed |-> "dict", ws |-> "dict", data |-> d,
    conf_hint |-> d.confidence, sol_hint |-> d.solution ]
\* Sure! {"solution": "ok", "confidence": 0.6, ...} hope {that} helps
T_wrapped ==
  [ id |-> "wrapped", loads |-> "err", scan |-> "found",
    spanLoads |-> "dict", spanFixed |-> "err", spanAggr |-> "dict",
    clean |-> "err", fence |-> "nomatch", fix |-> "err", fixAggr |-> "err",
    mixed |-> "dict", relaxed |-> "dict", ws |-> "err", data |-> D_weak,
    conf_hint |-> Absent, sol_hint |-> SomeText ]
\* {a: 1}
T_unquoted ==
  [ id |-> "unquoted", loads |-> "err", scan |-> "found",
    spanLoads |-> "err", spanFixed |-> "dict", spanAggr |-> "dict",
    clean |-> "err", fence |-> "nomatch", fix |-> "dict", fixAggr |-> "dict",
    mixed |-> "none", relaxed |-> "dict", ws |-> "err", data |-> D_bare,
    conf_hint |-> Absent, sol_hint |-> Absent ]
\* {a b}
T_garbage ==
  [ id |-> "garbage", loads |-> "err", scan |-> "found",
    spanLoads |-> "err", spanFixed |-> "err", spanAggr |-> "err",
    clean |-> "err", fence |-> "nomatch", fix |-> "err", fixAggr |-> "err",
    mixed |-> "none", relaxed |-> "err", ws |-> "err", data |-> D_bare,
    conf_hint |-> Absent, sol_hint |-> Absent ]
\* no json here
T_prose ==
  [ id |-> "prose", loads |-> "err", scan |-> "nobrace",
    spanLoads |-> "err", spanFixed |-> "err", spanAggr |-> "err",
    clean |-> "err", fence |-> "nomatch", fix |-> "err", fixAggr |-> "err",
    mixed |-> "none", relaxed |-> "nobrace", ws |-> "err", data |-> D_bare,
    conf_hint |-> Absent, sol_hint |-> Absent ]
\* {}
T_emptyobj ==
  [ id |-> "emptyobj", loads |-> "emptydict", scan |-> "found",
    spanLoads |-> "emptydict", spanFixed |-> "emptydict",
    spanAggr |-> "emptydict", clean |-> "emptydict", fence |-> "nomatch",
    fix |-> "emptydict", fixAggr |-> "emptydict", mixed |-> "emptydict",
    relaxed |-> "emptydict", ws |-> "emptydict", data |-> D_bare,
    conf_hint |-> Absent, sol_hint |-> Absent ]
\* ["confidence: 0.9"]
T_list ==
  [ id |-> "list", loads |-> "nondict", scan |-> "nobrace",
    spanLoads |-> "err", spanFixed |-> "err", spanAggr |-> "err",
    clean |-> "nondict", fence |-> "nomatch", fix |-> "nondict",
    fixAggr |-> "err", mixed |-> "none", relaxed |-> "nobrace",
    ws |-> "nondict", data |-> D_bare, conf_hint |-> 9, sol_hint |-> Absent ]
\* {"a":1
T_truncated ==
  [ id |-> "truncated", loads |-> "err", scan |-> "unclosed",
    spanLoads |-> "err", spanFixed |-> "err", spanAggr |-> "err",
    clean |-> "err", fence |-> "nomatch", fix |-> "dict", fixAggr |-> "dict",
    mixed |-> "none", relaxed |-> "err", ws |-> "err", data |-> D_bare,
    conf_hint |-> Absent, sol_hint |-> Absent ]
\* [[[[ ... 100000 times: json.loads exceeds the recursion limit
T_deep ==
  [ id |-> "deep", loads |-> "recursion", scan |-> "nobrace",
    spanLoads |-> "err", spanFixed |-> "err", spanAggr |-> "err",
    clean |-> "recursion", fence |-> "nomatch", fix |-> "recursion",
    fixAggr |-> "err", mixed |-> "none", relaxed |-> "nobrace",
    ws |-> "recursion", data |-> D_bare, conf_hint |-> Absent,
    sol_hint |-> Absent ]
\* the set {x ```json {"a": 1} ```
T_fenced ==
  [ id |-> "fenced", loads |-> "err", scan |-> "unclosed",
    spanLoads |-> "err", spanFixed |-> "err", spanAggr |-> "err",
    clean |-> "err", fence |-> "dict", fix |-> "err", fixAggr |-> "err",
    mixed |-> "dict", relaxed |-> "err", ws |-> "err", data |-> D_bare,
    conf_hint |-> Absent, sol_hint |-> Absent ]

\* the character U+0060 of a code fence, as one element of a text
Backtick == "U+0060"

\* a fenced block (three backticks, a language tag, the object, three
\* backticks) around an object with single-quoted strings, an unquoted key
\* and a trailing comma
FencedText ==
  << Backtick, Backtick, Backtick, "a", " ", "{", "'", "a", "'", ":", " ",
     "'", "a", "'", ",", " ", "a", ":", " ", "1", ",", "}", " ",
     Backtick, Backtick, Backtick >>

\* {"solution": "ok", "confidence": 0.9}
D_ok == [ NoFields EXCEPT !.solution = SomeText, !.confidence = 9 ]

\* what _extract_json_object observes on a text of characters
scan_of(response) ==
  LET r == find_json_str(response)
  IN  IF r.start_idx = 0 THEN "nobrace"
      ELSE IF r.end_idx = 0 THEN "unclosed"
      ELSE "found"

\* the fenced text: the scan, the parse of the span and the parse of the
\* repaired span are computed from its characters
T_fence_repair ==
  [ id |-> "fence_repair", loads |-> json_loads_text(FencedText),
    scan |-> scan_of(FencedText),
    spanLoads |-> json_loads_text(find_json_str(FencedText).json_str),
    spanFixed |->
      json_loads_text(_fix_json_string(find_json_str(FencedText).json_str)),
    spanAggr |-> "err", clean |-> "err", fence |-> "err", fix |-> "err",
    fixAggr |-> "err", mixed |-> "none", relaxed |-> "err", ws |-> "err",
    data |-> D_ok, conf_hint |-> 9, sol_hint |-> SomeText ]

Texts ==
  { T_valid("valid_good", D_good), T_valid("valid_weak", D_weak),
    T_valid("valid_odd", D_odd), T_wrapped, T_unquoted, T_garbage, T_prose,
    T_emptyobj, T_list, T_truncated, T_deep, T_fenced, T_fence_repair }

\* the texts the stages of reason() are run against
StageTexts ==
  { T_valid("valid_good", D_good), T_valid("valid_weak", D_weak),
    T_garbage }

\* the texts used where two runs are interleaved
FewTexts == { T_valid("valid_weak", D_weak) }

\* the text query_json builds from an exception: f"Query failed: {str(e)}"
T_queryFailed ==
  [ T_prose EXCEPT !.id = "query_failed" ]

\* no response received yet
T_none ==
  [ T_prose EXCEPT !.id = "none" ]

\* ------------------------------------------------------------------------
\* Parsing primitives
\* ------------------------------------------------------------------------
\* json.loads on a text whose observation is k and whose object is d
json_loads(k, d) ==
  CASE k = "dict" -> Ok(Dict("data", d))
    [] k = "emptydict" -> Ok(EmptyDict)
    [] k = "nondict" -> Ok(NonDict)
    [] k = "recursion" -> Raise("RecursionError")
    [] OTHER -> Raise("JSONDecodeError")

\* the dict literal at the end of _aggressive_json_fix
MinimalValidJson ==
  [ NoFields EXCEPT !.error = JsonParsingFailed, !.confidence = 0,
      !.solution = AggressiveSolution ]

\* _aggressive_json_fix: its last json.loads, and on JSONDecodeError the
\* minimal dict instead of an exception
_aggressive_json_fix(k, d) ==
  LET r == json_loads(k, d)
  IN  IF r.exc = "JSONDecodeError"
        THEN Ok(Dict("aggressive", MinimalValidJson))
        ELSE r

\* _extract_json_object: no brace or no matching brace raises ValueError;
\* otherwise the span is parsed, then fixed and parsed, then handed to
\* _aggressive_json_fix
_extract_json_object(t) ==
  IF t.scan = "nobrace" THEN Raise("ValueError")
  ELSE IF t.scan = "unclosed" THEN Raise("ValueError")
  ELSE LET r1 == json_loads(t.spanLoads, t.data)
       IN  IF r1.exc # "JSONDecodeError" THEN r1
           ELSE LET r2 == json_loads(t.spanFixed, t.data)
                IN  IF r2.exc # "JSONDecodeError" THEN r2
                    ELSE _aggressive_json_fix(t.spanAggr, t.data)

\* _extract_from_code_blocks
_extract_from_code_blocks(t) ==
  IF t.fence = "nomatch" THEN Raise("ValueError")
  ELSE json_loads(t.fence, t.data)

\* _fix_and_parse_json: json.loads of the repaired text (before and after
\* dropping an incomplete last line), then _aggressive_json_fix
_fix_and_parse_json(t) ==
  LET r == json_loads(t.fix, t.data)
  IN  IF r.exc = "JSONDecodeError"
        THEN _aggressive_json_fix(t.fixAggr, t.data)
        ELSE r

\* _extract_json_from_mixed_content: the first candidate that json.loads
\* accepts, ValueError when there is none
_extract_json_from_mixed_content(t) ==
  IF t.mixed = "none" THEN Raise("ValueError")
  ELSE json_loads(t.mixed, t.data)

\* _parse_relaxed_json
_parse_relaxed_json(t) ==
  IF t.relaxed = "nobrace" THEN Raise("ValueError")
  ELSE json_loads(t.relaxed, t.data)

\* the list parsing_strategies of query_json, in its order
NumStrategies == 8
parsing_strategies(i, t) ==
  CASE i = 1 -> json_loads(t.loads, t.data)
    [] i = 2 -> _extract_json_object(t)
    [] i = 3 -> json_loads(t.clean, t.data)
    [] i = 4 -> _extract_from_code_blocks(t)
    [] i = 5 -> _fix_and_parse_json(t)
    [] i = 6 -> _extract_json_from_mixed_content(t)
    [] i = 7 -> _parse_relaxed_json(t)
    [] OTHER -> json_loads(t.ws, t.data)

\* the exception classes the strategy loop catches
CaughtByStrategyLoop ==
  { "JSONDecodeError", "ValueError", "AttributeError", "TypeError" }

\* the loop does not stop at the first truthy dict: the last strategy that
\* yields one wins
RECURSIVE try_strategies_last_success(_, _)
try_strategies_last_success(t, i) ==
  IF i > NumStrategies
    THEN [ status |-> "failed", val |-> None, strategy |-> 0 ]
    ELSE LET r == parsing_strategies(i, t)
             rest == try_strategies_last_success(t, i + 1)
         IN  IF rest.status = "found" THEN rest
             ELSE IF r.exc = "none" /\ Truthy(r.val)
               THEN [ status |-> "found", val |-> r.val, strategy |-> i ]
             ELSE IF r.exc \notin CaughtByStrategyLoop \cup { "none" }
               THEN [ status |-> "raised", val |-> None, strategy |-> i ]
             ELSE rest

\* the loop over parsing_strategies: the first truthy dict is returned, a
\* caught exception or a falsy result moves on, any other exception leaves
\* the loop
RECURSIVE try_strategies(_, _)
try_strategies(t, i) ==
  IF i > NumStrategies
    THEN [ status |-> "failed", val |-> None, strategy |-> 0 ]
    ELSE LET r == parsing_strategies(i, t)
         IN  IF r.exc = "none"
               THEN IF Truthy(r.val)
                      THEN [ status |-> "found", val |-> r.val,
                             strategy |-> i ]
                      ELSE try_strategies(t, i + 1)
               ELSE IF r.exc \in CaughtByStrategyLoop
                      THEN try_strategies(t, i + 1)
                      ELSE [ status |-> "raised", val |-> None,
                             strategy |-> i ]

\* the three strategies tried on a regenerated response, under a bare except
regeneration_strategies(i, t) ==
  CASE i = 1 -> _extract_json_object(t)
    [] i = 2 -> json_loads(t.clean, t.data)
    [] OTHER -> _fix_and_parse_json(t)

RECURSIVE try_regeneration_strategies(_, _)
try_regeneration_strategies(t, i) ==
  IF i > 3
    THEN [ status |-> "failed", val |-> None, strategy |-> 0 ]
    ELSE LET r == regeneration_strategies(i, t)
         IN  IF r.exc = "none" /\ Truthy(r.val)
               THEN [ status |-> "found", val |-> r.val, strategy |-> i ]
               ELSE try_regeneration_strategies(t, i + 1)

\* parsing of the regenerated response after a parse failure: json.loads
\* first (only JSONDecodeError is caught there), then the three strategies
parse_regenerated(t) ==
  LET r0 == json_loads(t.loads, t.data)
  IN  IF r0.exc = "none" /\ Truthy(r0.val)
        THEN [ status |-> "found", val |-> r0.val, strategy |-> 0 ]
      ELSE IF r0.exc \notin { "none", "JSONDecodeError" }
        THEN [ status |-> "failed", val |-> None, strategy |-> 0 ]
      ELSE try_regeneration_strategies(t, 1)

\* the number found is taken as it is
Clamp_unbounded(v) == v

\* min(1.0, max(0.0, confidence_val))
Clamp(v) == IF v < 0 THEN 0 ELSE IF v > 10 THEN 10 ELSE v

\* the fallback dict without its error key
_create_fallback_response_no_error(t) ==
  Dict("fallback",
       [ NoFields EXCEPT !.confidence = 1, !.solution = FallbackSolution,
           !.confidence_assessment = NotANumber ])

\* _create_fallback_response: the defaults, overwritten by what the regular
\* expressions find in the raw text
_create_fallback_response(t) ==
  LET conf == IF t.conf_hint >= 0 THEN Clamp(t.conf_hint) ELSE 1
      sol == IF t.conf_hint # NotANumber /\ t.sol_hint > EmptyStr
               THEN t.sol_hint
               ELSE FallbackSolution
  IN  Dict("fallback",
           [ NoFields EXCEPT !.error = JsonParsingFailed,
               !.confidence = conf, !.solution = sol,
               !.confidence_assessment = NotANumber ])

\* ------------------------------------------------------------------------
\* ReasoningStateMachine
\* ------------------------------------------------------------------------
\* dict.get(key, default)
Get(v, default) == IF v = Absent THEN default ELSE v

\* _safe_float with its default 0.0
_safe_float(v) == IF v = NotANumber THEN 0 ELSE v

\* _safe_int with its default 0
_safe_int(v) == IF v = NotANumber THEN 0 ELSE v

\* bool(value) of a string-valued key
NonEmpty(v) == v > EmptyStr

\* a missing confidence read as 0.5, the default of the fast pass
simple_context_low_default(cur, context) ==
  [ current_state |-> cur,
    confidence |-> _safe_float(Get(context.confidence, 5)),
    complexity |-> _safe_int(Get(context.complexity_level, 3)),
    has_solution |-> \/ NonEmpty(context.fast_solution)
                     \/ NonEmpty(context.slow_solution)
                     \/ NonEmpty(context.final_solution) ]

\* the dict simple_context built at each transition
simple_context(cur, context) ==
  [ current_state |-> cur,
    confidence |-> _safe_float(Get(context.confidence, 7)),
    complexity |-> _safe_int(Get(context.complexity_level, 3)),
    has_solution |-> \/ NonEmpty(context.fast_solution)
                     \/ NonEmpty(context.slow_solution)
                     \/ NonEmpty(context.final_solution) ]

\* the threshold compared strictly where it should be: a confidence equal
\* to the threshold passes
fast_processing_branch_inclusive(sc) ==
  IF sc.has_solution /\ sc.confidence >= FastThreshold
    THEN GENERATING_RESPONSE
    ELSE SLOW_PROCESSING

\* elif current_state == FAST_PROCESSING
fast_processing_branch(sc) ==
  IF sc.has_solution /\ sc.confidence > FastThreshold
    THEN GENERATING_RESPONSE
    ELSE SLOW_PROCESSING

\* the causal analysis follows the slow pass whatever the context asks for
slow_processing_branch_always_causal(sc, context) == CAUSAL_ANALYSIS

\* the two tests of the branch in the other order
slow_processing_branch_complexity_first(sc, context) ==
  IF sc.complexity >= HighComplexity
    THEN METACOGNITIVE_EVALUATION
  ELSE IF context.requires_causal_analysis
    THEN CAUSAL_ANALYSIS
    ELSE GENERATING_RESPONSE

\* elif current_state == SLOW_PROCESSING
slow_processing_branch(sc, context) ==
  IF context.requires_causal_analysis
    THEN CAUSAL_ANALYSIS
  ELSE IF sc.complexity >= HighComplexity
    THEN METACOGNITIVE_EVALUATION
    ELSE GENERATING_RESPONSE

\* the evaluation sends the run back to the slow pass
metacognitive_evaluation_branch_back == SLOW_PROCESSING

\* elif current_state == METACOGNITIVE_EVALUATION
metacognitive_evaluation_branch == GENERATING_RESPONSE

\* the complexity test strict where it should not be
causal_analysis_branch_strict(sc) ==
  IF sc.complexity > HighComplexity
    THEN METACOGNITIVE_EVALUATION
    ELSE GENERATING_RESPONSE

\* elif current_state == CAUSAL_ANALYSIS (the first of the two branches
\* with this test; the second one is never reached)
causal_analysis_branch(sc) ==
  IF sc.complexity >= HighComplexity
    THEN METACOGNITIVE_EVALUATION
    ELSE GENERATING_RESPONSE

\* the chain without the branch of PARSING_INPUT, which then falls into the
\* final else
hard_coded_transitions_no_mapping(cur, context) ==
  LET sc == simple_context(cur, context)
  IN  CASE cur = IDLE -> PARSING_INPUT
        [] cur = REPRESENTATION_MAPPING -> FAST_PROCESSING
        [] cur = FAST_PROCESSING -> fast_processing_branch(sc)
        [] cur = SLOW_PROCESSING -> slow_processing_branch(sc, context)
        [] cur = CAUSAL_ANALYSIS -> causal_analysis_branch(sc)
        [] cur = METACOGNITIVE_EVALUATION -> metacognitive_evaluation_branch
        [] cur = SELF_VERIFICATION -> COMPLETE
        [] OTHER -> COMPLETE

\* the if/elif chain of hard-coded transitions
hard_coded_transitions(cur, context) ==
  LET sc == simple_context(cur, context)
  IN  CASE cur = IDLE -> PARSING_INPUT
        [] cur = PARSING_INPUT -> REPRESENTATION_MAPPING
        [] cur = REPRESENTATION_MAPPING -> FAST_PROCESSING
        [] cur = FAST_PROCESSING -> fast_processing_branch(sc)
        [] cur = SLOW_PROCESSING -> slow_processing_branch(sc, context)
        [] cur = CAUSAL_ANALYSIS -> causal_analysis_branch(sc)
        [] cur = METACOGNITIVE_EVALUATION -> metacognitive_evaluation_branch
        [] cur = SELF_VERIFICATION -> COMPLETE
        [] OTHER -> COMPLETE

\* the current state compared with the first entry of the log
loop_detected_first_entry(cur, hist) ==
  Len(hist) >= 2 /\ hist[1] = cur

\* the length test off by one
loop_detected_late(cur, hist) ==
  Len(hist) > 2 /\ hist[Len(hist)] = cur

\* the loop check: the log holds two entries or more and its last entry is
\* the current state
loop_detected(cur, hist) ==
  Len(hist) >= 2 /\ hist[Len(hist)] = cur

\* only one of the two flags is read
error_conditions_one_flag(context, next_state) ==
  IF context.error_occurred THEN ERROR ELSE next_state

\* the check for error conditions that follows the chain
error_conditions(context, next_state) ==
  IF context.error_occurred \/ context.parsing_error
    THEN ERROR
    ELSE next_state

\* the loop check made before the test for GENERATING_RESPONSE
transition_to_next_state_loop_first(cur, hist, context) ==
  IF loop_detected(cur, hist)
    THEN [ current_state |-> COMPLETE,
           state_history |-> Append(hist, cur) ]
  ELSE IF cur = GENERATING_RESPONSE
    THEN [ current_state |-> SELF_VERIFICATION,
           state_history |-> Append(hist, cur) ]
  ELSE [ current_state |->
           error_conditions(context, hard_coded_transitions(cur, context)),
         state_history |-> Append(hist, cur) ]

\* the forced completion replaces the last entry of the log instead of
\* adding one
transition_to_next_state_loop_rewrites(cur, hist, context) ==
  IF cur = GENERATING_RESPONSE
    THEN [ current_state |-> SELF_VERIFICATION,
           state_history |-> Append(hist, cur) ]
  ELSE IF loop_detected(cur, hist)
    THEN [ current_state |-> COMPLETE,
           state_history |-> Append(Front(hist), COMPLETE) ]
  ELSE [ current_state |->
           error_conditions(context, hard_coded_transitions(cur, context)),
         state_history |-> Append(hist, cur) ]

\* transition_to_next_state: the new current_state and state_history
transition_to_next_state(cur, hist, context) ==
  IF cur = GENERATING_RESPONSE
    THEN [ current_state |-> SELF_VERIFICATION,
           state_history |-> Append(hist, cur) ]
  ELSE IF loop_detected(cur, hist)
    THEN [ current_state |-> COMPLETE,
           state_history |-> Append(hist, cur) ]
  ELSE [ current_state |->
           error_conditions(context, hard_coded_transitions(cur, context)),
         state_history |-> Append(hist, cur) ]

\* ------------------------------------------------------------------------
\* T1ReasoningEngine: the stage context and the stage handlers
\* ------------------------------------------------------------------------
\* the keys of sm_context that a transition or the result reads
initial_sm_context(complexity_level, requires_causal_analysis) ==
  [ complexity_level |-> complexity_level,
    requires_causal_analysis |-> requires_causal_analysis,
    confidence |-> Absent, fast_solution |-> Absent,
    slow_solution |-> Absent, final_solution |-> Absent,
    error_occurred |-> FALSE, parsing_error |-> FALSE ]

\* sm_context.update(result) for the handler of each state; out is the
\* outcome of the handler's query_json call
_parse_input(context, out) ==
  IF out.exc = "none"
    THEN [ context EXCEPT
             !.complexity_level = Get(out.val.f.complexity_level, 3) ]
    ELSE [ context EXCEPT !.parsing_error = TRUE ]

_fast_processing(context, out) ==
  IF out.exc = "none"
    THEN [ context EXCEPT
             !.fast_solution = Get(out.val.f.solution, EmptyStr),
             !.confidence = Get(out.val.f.confidence, 5) ]
    ELSE context

_slow_processing(context, out) ==
  IF out.exc = "none"
    THEN [ context EXCEPT
             !.slow_solution = Get(out.val.f.solution, EmptyStr),
             !.confidence = Get(out.val.f.confidence, 7) ]
    ELSE context

_metacognitive_evaluation(context, out) ==
  IF out.exc = "none"
    THEN [ context EXCEPT
             !.confidence = Get(out.val.f.confidence_assessment, 7) ]
    ELSE context

_generate_response(context, out) ==
  IF out.exc = "none"
    THEN [ context EXCEPT
             !.final_solution = Get(out.val.f.final_solution, EmptyStr),
             !.confidence = Get(out.val.f.confidence, 7) ]
    ELSE context

\* the dispatch on current_state in the loop of reason(); the handlers of
\* REPRESENTATION_MAPPING, CAUSAL_ANALYSIS and SELF_VERIFICATION write no
\* key that a transition or the result reads
stage_update(stage, context, out) ==
  CASE stage = PARSING_INPUT -> _parse_input(context, out)
    [] stage = FAST_PROCESSING -> _fast_processing(context, out)
    [] stage = SLOW_PROCESSING -> _slow_processing(context, out)
    [] stage = METACOGNITIVE_EVALUATION ->
         _metacognitive_evaluation(context, out)
    [] stage = GENERATING_RESPONSE -> _generate_response(context, out)
    [] OTHER -> context

\* ------------------------------------------------------------------------
\* State
\* ------------------------------------------------------------------------
Runs == 1..NumRuns

VARIABLES
  \* self.state_machine.current_state of the one engine
  current_state,
  \* self.state_machine.state_history of the one engine
  state_history,
  \* per run: where the coroutine of reason() (or a direct caller of
  \* query_json) stands
  pc,
  \* per run: the local variable current_state of the loop of reason()
  cur,
  \* per run: the local dict sm_context
  sm_context,
  \* per run: the local list state_transitions
  state_transitions,
  \* per run: the activation of query_json the run is in
  qj,
  \* per run: the ReasoningResult returned
  result,
  \* number of reason() calls started on the engine
  started,
  \* observation: the last call of transition_to_next_state
  last_tr,
  \* the text handed to a parsing helper that is called on its own
  text,
  \* what that helper returned
  outcome

vars ==
  << current_state, state_history, pc, cur, sm_context, state_transitions,
     qj, result, started, last_tr, text, outcome >>

\* a query_json activation that does not exist
NoFrame ==
  [ pc |-> "none", attempt |-> 0, calls |-> 0, all_raised |-> TRUE,
    response |-> T_none, out |-> Ok(None), via |-> "none", strategy |-> 0,
    max_tokens |-> 0 ]

NoResult ==
  [ returned |-> FALSE, solution |-> Absent, confidence |-> Absent,
    state_transitions |-> << >> ]

NoTransition ==
  [ from |-> "none", log |-> << >>, context |-> initial_sm_context(3, FALSE),
    to |-> "none", by |-> 0, exhausted |-> FALSE ]

\* no helper has been called yet
NoOutcome == [ fn |-> "none" ]

\* the engine and its state machine after construction
InitEngine ==
  /\ current_state = IDLE
  /\ state_history = << >>
  /\ pc = [ r \in Runs |-> "idle" ]
  /\ cur = [ r \in Runs |-> IDLE ]
  /\ sm_context = [ r \in Runs |-> initial_sm_context(3, FALSE) ]
  /\ state_transitions = [ r \in Runs |-> << >> ]
  /\ qj = [ r \in Runs |-> NoFrame ]
  /\ result = [ r \in Runs |-> NoResult ]
  /\ started = 0
  /\ last_tr = NoTransition

Init ==
  /\ InitEngine
  /\ text = << >>
  /\ outcome = NoOutcome

\* ------------------------------------------------------------------------
\* LLMInterface.query_json, one step per resumption of the coroutine
\* ------------------------------------------------------------------------
\* the same allowance on every attempt
max_tokens_of_flat(attempt) == 2000

\* max_tokens = 2000 + (attempt * 1000)
max_tokens_of(attempt) == 2000 + (attempt * 1000)

\* entry: attempt 0 calls self.query
query_json_enter ==
  [ NoFrame EXCEPT !.pc = "awaiting", !.calls = 1,
      !.max_tokens = max_tokens_of(0) ]

\* return result / return self._create_fallback_response(...); the local
\* response dies with the activation
query_json_return(f, v, via, strategy) ==
  [ f EXCEPT !.pc = "returned", !.out = Ok(v), !.via = via,
      !.strategy = strategy, !.response = T_none ]

\* the first exception ends the call with the fallback
on_exception_aborts(f) ==
  query_json_return(f, _create_fallback_response(T_queryFailed),
                    "fallback", 0)

\* the retry test off by one: one attempt more than the budget
on_exception_one_more(f) ==
  IF f.attempt <= max_retries
    THEN [ f EXCEPT !.pc = "sleeping" ]
    ELSE [ f EXCEPT !.pc = "regen_after_failure", !.calls = @ + 1,
             !.max_tokens = 2000 ]

\* the handler "except Exception as e" of the attempt loop
on_exception(f) ==
  IF f.attempt < max_retries
    THEN [ f EXCEPT !.pc = "sleeping" ]
    ELSE [ f EXCEPT !.pc = "regen_after_failure", !.calls = @ + 1,
             !.max_tokens = 2000 ]

\* the final parse failure goes to the fallback without a regeneration call
on_response_no_regeneration(f, t) ==
  LET s == try_strategies(t, 1)
      g == [ f EXCEPT !.response = t ]
  IN  CASE s.status = "found" ->
             query_json_return(g, s.val, "strategy", s.strategy)
        [] s.status = "raised" -> on_exception(g)
        [] OTHER ->
             IF f.attempt < max_retries
               THEN [ g EXCEPT !.pc = "sleeping" ]
               ELSE query_json_return(g, _create_fallback_response(t),
                                      "fallback", 0)

\* self.query returned text t on the current attempt
on_response(f, t) ==
  LET s == try_strategies(t, 1)
      g == [ f EXCEPT !.response = t ]
  IN  CASE s.status = "found" ->
             query_json_return(g, s.val, "strategy", s.strategy)
        [] s.status = "raised" -> on_exception(g)
        [] OTHER ->
             IF f.attempt < max_retries
               THEN [ g EXCEPT !.pc = "sleeping" ]
               ELSE [ g EXCEPT !.pc = "regen_after_parse",
                        !.calls = @ + 1, !.max_tokens = 3000 ]

\* the attempt is repeated under the same index
on_wake_same_attempt(f) ==
  [ f EXCEPT !.pc = "awaiting", !.calls = @ + 1 ]

\* asyncio.sleep(retry_delay) is over: continue with the next attempt
on_wake(f) ==
  [ f EXCEPT !.pc = "awaiting", !.attempt = @ + 1, !.calls = @ + 1,
      !.max_tokens = max_tokens_of(f.attempt + 1) ]

\* the regeneration call made after a parse failure returned text t
on_regenerated_after_parse(f, t) ==
  LET s == parse_regenerated(t)
  IN  IF s.status = "found"
        THEN query_json_return(f, s.val, "regeneration", s.strategy)
        ELSE query_json_return(f, _create_fallback_response(f.response),
                               "fallback", 0)

\* the regeneration call made after a query failure returned text t
on_regenerated_after_failure(f, t) ==
  LET r == json_loads(t.loads, t.data)
  IN  IF r.exc = "none" /\ Truthy(r.val)
        THEN query_json_return(f, r.val, "regeneration", 0)
        ELSE query_json_return(f, _create_fallback_response(T_queryFailed),
                               "fallback", 0)

\* the exception of the regeneration call is not caught
on_regeneration_failed_uncaught(f) ==
  [ f EXCEPT !.pc = "returned", !.out = Raise("Exception"),
      !.via = "raised", !.response = T_none ]

\* the regeneration call raised
on_regeneration_failed(f) ==
  IF f.pc = "regen_after_parse"
    THEN query_json_return(f, _create_fallback_response(f.response),
                           "fallback", 0)
    ELSE query_json_return(f, _create_fallback_response(T_queryFailed),
                           "fallback", 0)

\* ------------------------------------------------------------------------
\* Scheduling: the coroutines run on one event loop, so a coroutine is
\* resumed only while no other one is between two suspension points
\* ------------------------------------------------------------------------
Running(r) ==
  \/ pc[r] = "loop"
  \/ pc[r] \in { "stage", "compliance", "direct" } /\ qj[r].pc = "returned"

Scheduled(r) == \A o \in Runs \ { r } : ~Running(o)

\* ------------------------------------------------------------------------
\* Actions of the GenerationClient and of the retry delay
\* ------------------------------------------------------------------------
client_returns(r, t) ==
  /\ Scheduled(r)
  /\ qj[r].pc = "awaiting"
  /\ qj' = [ qj EXCEPT ![r] = on_response([ @ EXCEPT !.all_raised = FALSE ], t) ]
  /\ UNCHANGED << text, outcome,
                  current_state, state_history, pc, cur, sm_context,
                  state_transitions, result, started, last_tr >>

client_raises(r) ==
  /\ Scheduled(r)
  /\ qj[r].pc = "awaiting"
  /\ qj' = [ qj EXCEPT ![r] = on_exception(@) ]
  /\ UNCHANGED << text, outcome,
                  current_state, state_history, pc, cur, sm_context,
                  state_transitions, result, started, last_tr >>

retry_after_delay(r) ==
  /\ Scheduled(r)
  /\ qj[r].pc = "sleeping"
  /\ qj' = [ qj EXCEPT ![r] = on_wake(@) ]
  /\ UNCHANGED << text, outcome,
                  current_state, state_history, pc, cur, sm_context,
                  state_transitions, result, started, last_tr >>

regeneration_returns(r, t) ==
  /\ Scheduled(r)
  /\ qj[r].pc \in { "regen_after_parse", "regen_after_failure" }
  /\ qj' = [ qj EXCEPT ![r] =
               IF @.pc = "regen_after_parse"
                 THEN on_regenerated_after_parse(@, t)
                 ELSE on_regenerated_after_failure(
                        [ @ EXCEPT !.all_raised = FALSE ], t) ]
  /\ UNCHANGED << text, outcome,
                  current_state, state_history, pc, cur, sm_context,
                  state_transitions, result, started, last_tr >>

regeneration_raises(r) ==
  /\ Scheduled(r)
  /\ qj[r].pc \in { "regen_after_parse", "regen_after_failure" }
  /\ qj' = [ qj EXCEPT ![r] = on_regeneration_failed(@) ]
  /\ UNCHANGED << text, outcome,
                  current_state, state_history, pc, cur, sm_context,
                  state_transitions, result, started, last_tr >>

\* ------------------------------------------------------------------------
\* A caller that awaits query_json directly
\* ------------------------------------------------------------------------
call_query_json(r) ==
  /\ Scheduled(r)
  /\ pc[r] = "idle"
  /\ pc' = [ pc EXCEPT ![r] = "direct" ]
  /\ qj' = [ qj EXCEPT ![r] = query_json_enter ]
  /\ UNCHANGED << text, outcome,
                  current_state, state_history, cur, sm_context,
                  state_transitions, result, started, last_tr >>

caller_resumes(r) ==
  /\ pc[r] = "direct"
  /\ qj[r].pc = "returned"
  /\ pc' = [ pc EXCEPT ![r] = "idle" ]
  /\ qj' = [ qj EXCEPT ![r].pc = "consumed" ]
  /\ UNCHANGED << text, outcome,
                  current_state, state_history, cur, sm_context,
                  state_transitions, result, started, last_tr >>

NextQ ==
  \/ call_query_json(1)
  \/ \E t \in Texts : client_returns(1, t)
  \/ client_raises(1)
  \/ retry_after_delay(1)
  \/ \E t \in Texts : regeneration_returns(1, t)
  \/ regeneration_raises(1)
  \/ caller_resumes(1)

\* query_json called in isolation, again and again
SpecQ == Init /\ [][NextQ]_vars

\* ------------------------------------------------------------------------
\* T1ReasoningEngine.reason
\* ------------------------------------------------------------------------
\* the machine after a call of transition_to_next_state by run r
\* the loop left only in COMPLETE
loop_condition_complete_only(s) == s # COMPLETE

\* while self.state_machine.current_state not in [COMPLETE, ERROR]; the
\* branch of the loop body for ERROR is never entered
loop_condition(s) == s \notin Terminal

Transition(r, context, exhausted) ==
  LET m == transition_to_next_state(current_state, state_history, context)
  IN  /\ current_state' = m.current_state
      /\ state_history' = m.state_history
      /\ last_tr' = [ from |-> current_state, log |-> state_history,
                      context |-> context, to |-> m.current_state,
                      by |-> r, exhausted |-> exhausted ]

\* the state is set back, the log is kept
reset_keeps_history ==
  /\ current_state' = IDLE
  /\ state_history' = state_history

\* ReasoningStateMachine.reset
reset ==
  /\ current_state' = IDLE
  /\ state_history' = << >>

\* entry of reason(): ultra-complexity detection (ultra is the detected
\* level, 0 when the problem is not ultra-complex), reset of the machine,
\* initial sm_context
reason_enter(r, complexity_level, requires_causal_analysis, ultra) ==
  /\ Scheduled(r)
  /\ pc[r] \in { "idle", "done" }
  /\ started < MaxCalls
  /\ started' = started + 1
  /\ reset
  /\ sm_context' = [ sm_context EXCEPT ![r] =
       initial_sm_context(IF ultra > complexity_level
                            THEN ultra ELSE complexity_level,
                          requires_causal_analysis) ]
  /\ state_transitions' = [ state_transitions EXCEPT ![r] = << >> ]
  /\ result' = [ result EXCEPT ![r] = NoResult ]
  /\ qj' = [ qj EXCEPT ![r] = NoFrame ]
  /\ pc' = [ pc EXCEPT ![r] = "loop" ]
  /\ last_tr' = NoTransition
  /\ UNCHANGED << text, outcome, cur >>

\* one iteration of the while loop in state IDLE: no handler, then the
\* transition
idle_stage(r) ==
  /\ Scheduled(r)
  /\ pc[r] = "loop"
  /\ current_state = IDLE
  /\ cur' = [ cur EXCEPT ![r] = current_state ]
  /\ state_transitions' =
       [ state_transitions EXCEPT ![r] = Append(@, current_state) ]
  /\ Transition(r, sm_context[r], FALSE)
  /\ UNCHANGED << text, outcome,
                  pc, sm_context, qj, result, started >>

\* the head of an iteration in any other non-terminal state: the handler of
\* the state is called and awaits query_json
stage_begin(r) ==
  /\ Scheduled(r)
  /\ pc[r] = "loop"
  /\ loop_condition(current_state)
  /\ current_state # IDLE
  /\ cur' = [ cur EXCEPT ![r] = current_state ]
  /\ state_transitions' =
       [ state_transitions EXCEPT ![r] = Append(@, current_state) ]
  /\ qj' = [ qj EXCEPT ![r] = query_json_enter ]
  /\ pc' = [ pc EXCEPT ![r] = "stage" ]
  /\ UNCHANGED << text, outcome,
                  current_state, state_history, sm_context, result,
                  started, last_tr >>

\* the transition evaluated before the record of the stage is merged
stage_end_transition_first(r) ==
  /\ pc[r] = "stage"
  /\ qj[r].pc = "returned"
  /\ sm_context' = [ sm_context EXCEPT ![r] =
                       stage_update(cur[r], sm_context[r], qj[r].out) ]
  /\ Transition(r, sm_context[r], qj[r].all_raised)
  /\ qj' = [ qj EXCEPT ![r] = NoFrame ]
  /\ pc' = [ pc EXCEPT ![r] = "loop" ]
  /\ UNCHANGED << text, outcome,
                  cur, state_transitions, result, started >>

\* query_json returned to the handler: sm_context.update(result), then
\* transition_to_next_state(sm_context)
stage_end(r) ==
  /\ pc[r] = "stage"
  /\ qj[r].pc = "returned"
  /\ LET context == stage_update(cur[r], sm_context[r], qj[r].out)
     IN  /\ sm_context' = [ sm_context EXCEPT ![r] = context ]
         /\ Transition(r, context, qj[r].all_raised)
  /\ qj' = [ qj EXCEPT ![r] = NoFrame ]
  /\ pc' = [ pc EXCEPT ![r] = "loop" ]
  /\ UNCHANGED << text, outcome,
                  cur, state_transitions, result, started >>

\* the while condition is false: _check_t1_compliance awaits query_json
loop_exit(r) ==
  /\ Scheduled(r)
  /\ pc[r] = "loop"
  /\ ~loop_condition(current_state)
  /\ qj' = [ qj EXCEPT ![r] = query_json_enter ]
  /\ pc' = [ pc EXCEPT ![r] = "compliance" ]
  /\ UNCHANGED << text, outcome,
                  current_state, state_history, cur, sm_context,
                  state_transitions, result, started, last_tr >>

\* return ReasoningResult(...)
reason_return(r) ==
  /\ pc[r] = "compliance"
  /\ qj[r].pc = "returned"
  /\ result' = [ result EXCEPT ![r] =
       [ returned |-> TRUE,
         solution |-> sm_context[r].final_solution,
         confidence |-> _safe_float(Get(sm_context[r].confidence, 0)),
         state_transitions |-> state_transitions[r] ] ]
  /\ qj' = [ qj EXCEPT ![r] = NoFrame ]
  /\ pc' = [ pc EXCEPT ![r] = "done" ]
  /\ UNCHANGED << text, outcome,
                  current_state, state_history, cur, sm_context,
                  state_transitions, started, last_tr >>

\* the inputs of reason()
InputComplexity == { 3 }
UltraLevels == { 0, 5 }

RunStep(r, texts) ==
  \/ \E cl \in InputComplexity, rc \in BOOLEAN, u \in UltraLevels :
       reason_enter(r, cl, rc, u)
  \/ idle_stage(r)
  \/ stage_begin(r)
  \/ \E t \in texts : client_returns(r, t)
  \/ client_raises(r)
  \/ retry_after_delay(r)
  \/ \E t \in texts : regeneration_returns(r, t)
  \/ regeneration_raises(r)
  \/ stage_end(r)
  \/ loop_exit(r)
  \/ reason_return(r)

\* reason() called on one engine, one call after the other
Next == RunStep(1, StageTexts)

Spec == Init /\ [][Next]_vars

\* the event loop resumes a coroutine that can run, and every call of the
\* GenerationClient returns or raises
FairSpec == Spec /\ WF_vars(Next)

\* an llm whose query_json raises (a subclass of LLMInterface that
\* overrides it): the call made by a stage handler or by
\* _check_t1_compliance ends with an exception, which the caller catches
query_json_raises(r) ==
  /\ pc[r] \in { "stage", "compliance" }
  /\ qj[r].pc = "awaiting"
  /\ qj[r].attempt = 0
  /\ qj' = [ qj EXCEPT ![r] =
               [ @ EXCEPT !.pc = "returned", !.out = Raise("Exception"),
                   !.via = "raised", !.all_raised = FALSE ] ]
  /\ UNCHANGED << text, outcome,
                  current_state, state_history, pc, cur, sm_context,
                  state_transitions, result, started, last_tr >>

\* reason() on an engine built with such an llm
NextRaising ==
  \/ Next
  \/ query_json_raises(1)

SpecRaising == Init /\ [][NextRaising]_vars

\* reason() called on one engine by coroutines that run concurrently, with
\* a GenerationClient that answers every call with well-formed text
NextConc ==
  \E r \in Runs :
    \/ \E rc \in BOOLEAN : reason_enter(r, 3, rc, 0)
    \/ idle_stage(r)
    \/ stage_begin(r)
    \/ \E t \in FewTexts : client_returns(r, t)
    \/ stage_end(r)
    \/ loop_exit(r)
    \/ reason_return(r)

SpecConc == Init /\ [][NextConc]_vars

\* ------------------------------------------------------------------------
\* A caller that drives a ReasoningStateMachine directly: it starts the
\* machine in any state or puts it back into the state logged last (a
\* revisit), calls transition_to_next_state with a context of its own and
\* calls reset
\* ------------------------------------------------------------------------
BaseContext == initial_sm_context(3, FALSE)

\* contexts that differ in the candidate solution and the confidence
SolutionContexts ==
  { [ BaseContext EXCEPT !.fast_solution = s[1], !.slow_solution = s[2],
        !.confidence = c ] :
      s \in { << Absent, Absent >>, << SomeText, Absent >>,
              << Absent, SomeText >>, << EmptyStr, Absent >> },
      c \in { Absent, NotANumber, 6, 7 } }

\* contexts that differ in the complexity and the causal requirement
ComplexityContexts ==
  { [ BaseContext EXCEPT !.complexity_level = cl,
        !.requires_causal_analysis = rc ] :
      cl \in { Absent, NotANumber, 3, 4 }, rc \in BOOLEAN }

\* contexts that carry an error flag
ErrorContexts ==
  { [ c EXCEPT !.error_occurred = e, !.parsing_error = ~e ] :
      c \in { BaseContext,
              [ BaseContext EXCEPT !.fast_solution = SomeText,
                  !.confidence = 7 ],
              [ BaseContext EXCEPT !.complexity_level = 4,
                  !.requires_causal_analysis = TRUE ] },
      e \in BOOLEAN }

HarnessContexts == SolutionContexts \cup ComplexityContexts \cup ErrorContexts

harness_transition(context) ==
  /\ Len(state_history) <= MaxHist
  /\ Transition(0, context, FALSE)
  /\ UNCHANGED << text, outcome,
                  pc, cur, sm_context, state_transitions, qj, result,
                  started >>

harness_assign(s) ==
  /\ IF state_history = << >> THEN TRUE ELSE s = Last(state_history)
  /\ current_state' = s
  /\ last_tr' = NoTransition
  /\ UNCHANGED << text, outcome,
                  state_history, pc, cur, sm_context, state_transitions,
                  qj, result, started >>

harness_reset ==
  /\ reset
  /\ last_tr' = NoTransition
  /\ UNCHANGED << text, outcome,
                  pc, cur, sm_context, state_transitions, qj, result,
                  started >>

NextSM ==
  \/ \E context \in HarnessContexts : harness_transition(context)
  \/ \E s \in ReasoningState : harness_assign(s)
  \/ harness_reset

SpecSM == Init /\ [][NextSM]_vars

\* ------------------------------------------------------------------------
\* The parsing helpers called on their own
\* ------------------------------------------------------------------------
\* the characters the scan tells apart, and a letter
ScanChars == { "{", "}", "\"", "\\", "a" }

\* {"a": "a } a"} followed by prose that holds a brace
ExampleObject ==
  << "{", "\"", "a", "\"", ":", " ", "\"", "a", " ", "}", " ", "a", "\"",
     "}" >>
ExampleText == ExampleObject \o << " ", "a", " ", "}" >>

ScanTexts == BoundedTexts(ScanChars, MaxLen) \cup { ExampleText }

\* a caller hands a text to _extract_json_object
extract_json_object_call ==
  /\ outcome = NoOutcome
  /\ outcome' = find_json_str(text)
  /\ UNCHANGED << text, current_state, state_history, pc, cur, sm_context,
                  state_transitions, qj, result, started, last_tr >>

InitExtract ==
  /\ InitEngine
  /\ text \in ScanTexts
  /\ outcome = NoOutcome

NextExtract == extract_json_object_call

\* _extract_json_object called on its own on any text
SpecExtract == InitExtract /\ [][NextExtract]_vars

\* the characters the repair tells apart
FixChars == { "{", "}", "]", ",", ":", "\"", "'", "\\", "a", "1", " " }

FixTexts == BoundedTexts(FixChars, MaxLen)

\* a caller hands a text to _fix_json_string
fix_json_string_call ==
  /\ outcome = NoOutcome
  /\ outcome' = [ fn |-> "_fix_json_string", applications |-> 1,
                  previous |-> text, json_str |-> _fix_json_string(text) ]
  /\ UNCHANGED << text, current_state, state_history, pc, cur, sm_context,
                  state_transitions, qj, result, started, last_tr >>

\* the caller hands the repaired text to _fix_json_string once more
fix_json_string_again ==
  /\ outcome # NoOutcome
  /\ outcome.applications = 1
  /\ outcome' = [ fn |-> "_fix_json_string", applications |-> 2,
                  previous |-> outcome.json_str,
                  json_str |-> _fix_json_string(outcome.json_str) ]
  /\ UNCHANGED << text, current_state, state_history, pc, cur, sm_context,
                  state_transitions, qj, result, started, last_tr >>

InitRepair ==
  /\ InitEngine
  /\ text \in FixTexts
  /\ outcome = NoOutcome

NextRepair ==
  \/ fix_json_string_call
  \/ fix_json_string_again

\* _fix_json_string called on its own on any text, and on its own output
SpecRepair == InitRepair /\ [][NextRepair]_vars

\* ------------------------------------------------------------------------
\* _create_fallback_response called on its own
\* ------------------------------------------------------------------------
\* original_response[:500]
FallbackLimit == 500

\* the single entry of the default reasoning_steps
FallbackSteps == 6

\* the keys of the dict literal whose values are booleans
BooleanKeys ==
  { "r1_compliance", "r2_compliance", "c1_compliance", "c2_compliance",
    "c3_compliance", "overall_t1_compliance", "u1_compliance",
    "u2_compliance", "c4_compliance", "c5_compliance", "c6_compliance",
    "overall_tu_compliance", "e1_compliance", "e2_compliance",
    "e3_compliance", "overall_tustar_compliance", "verification_passed",
    "should_revise" }

\* the keys of the dict literal whose names end in _score
ScoreKeys ==
  { "compliance_score", "verification_score", "reasoning_quality_score",
    "causal_fidelity_score", "metacognitive_score",
    "phenomenal_assessment_score" }

\* a raw text as the function reads it: its length, the first number after
\* confidence or score (in tenths, NotANumber when float() rejects it), the
\* first solution or answer text, the first reasoning-steps text; a text of
\* one character holds none of them
RawTexts ==
  { t \in [ len : { 0, 1, FallbackLimit - 1, FallbackLimit,
                    FallbackLimit + 1 },
            conf_hint : { Absent, NotANumber, 0, 5, 10, 25 },
            sol_hint : { Absent, SomeText },
            steps_hint : { Absent, SomeText } ] :
      t.len <= 1 =>
        t.conf_hint = Absent /\ t.sol_hint = Absent /\ t.steps_hint = Absent }

\* the whole text is kept, whatever its length
original_response_untruncated(t) ==
  IF t.len > 0
    THEN [ of |-> "original_response", len |-> t.len ]
    ELSE [ of |-> "No response", len |-> 11 ]

\* original_response[:500] if original_response else "No response"
original_response_of(t) ==
  IF t.len > 0
    THEN [ of |-> "original_response",
           len |-> IF t.len < FallbackLimit THEN t.len ELSE FallbackLimit ]
    ELSE [ of |-> "No response", len |-> 11 ]

\* what leaves the try block: the ValueError of float() on a malformed
\* number; nothing else in the block raises on a string
extraction_exc(t) ==
  IF t.len > 0 /\ t.conf_hint = NotANumber THEN "ValueError" ELSE "none"

\* except Exception: pass
fallback_exc(t) ==
  IF extraction_exc(t) \in { "none", "ValueError" }
    THEN "none"
    ELSE extraction_exc(t)

\* the first match of the reasoning patterns, looked for after the
\* confidence and the solution, inside the same try block
reasoning_steps_of(t) ==
  IF extraction_exc(t) = "none" /\ t.steps_hint > EmptyStr
    THEN t.steps_hint
    ELSE FallbackSteps

\* the dict _create_fallback_response returns, with every key the claims
\* read: error, confidence and solution as _create_fallback_response builds
\* them, and the other entries of the literal (scores in tenths)
fallback(t) ==
  LET f == _create_fallback_response(t).f
  IN  [ exc |-> fallback_exc(t),
        error |-> f.error,
        original_response |-> original_response_of(t),
        confidence |-> f.confidence,
        solution |-> f.solution,
        reasoning_steps |-> reasoning_steps_of(t),
        flags |-> [ k \in BooleanKeys |-> k = "should_revise" ],
        scores |->
          [ k \in ScoreKeys |->
              IF k \in { "reasoning_quality_score", "metacognitive_score" }
                THEN 1 ELSE 0 ] ]

\* a caller hands a raw text to _create_fallback_response
create_fallback_response_call ==
  /\ outcome = NoOutcome
  /\ outcome' = [ fn |-> "_create_fallback_response", val |-> fallback(text) ]
  /\ UNCHANGED << text, current_state, state_history, pc, cur, sm_context,
                  state_transitions, qj, result, started, last_tr >>

InitFallback ==
  /\ InitEngine
  /\ text \in RawTexts
  /\ outcome = NoOutcome

NextFallback == create_fallback_response_call

\* _create_fallback_response called on its own on any raw text
SpecFallback == InitFallback /\ [][NextFallback]_vars

\* ------------------------------------------------------------------------
\* Properties
\* ------------------------------------------------------------------------
\* the condition under which the first two branches of
\* transition_to_next_state are not taken and no error flag is set
PlainTransition(tr) ==
  /\ tr.from \in ReasoningState
  /\ ~(Len(tr.log) >= 2 /\ Last(tr.log) = tr.from)
  /\ ~tr.context.error_occurred
  /\ ~tr.context.parsing_error

\* hasCandidateSolution: one of fast_solution, slow_solution, final_solution
\* is a non-empty string
HasCandidateSolution(context) ==
  \E v \in { context.fast_solution, context.slow_solution,
             context.final_solution } : v \notin { Absent, EmptyStr }

\* confidenceAboveThreshold: the confidence read as a number (0.7 when the
\* key is missing, 0.0 when it is no number) exceeds 0.6
ConfidenceAboveThreshold(context) ==
  /\ context.confidence # NotANumber
  /\ \/ context.confidence = Absent
     \/ context.confidence >= 7

\* highComplexity: the complexity level read as a number (3 when the key is
\* missing, 0 when it is no number) is 4 or more
HighComplexityContext(context) ==
  context.complexity_level \notin { Absent, NotANumber }
    /\ context.complexity_level >= 4

\* C1: query_json never raises and returns a non-empty dict, after at most
\* max_retries+1 attempts plus one regeneration call, whatever the
\* GenerationClient does on each call.
C1_QueryJsonTotal ==
  \A r \in Runs :
    /\ qj[r].pc \in { "none", "awaiting", "sleeping", "regen_after_parse",
                      "regen_after_failure", "returned", "consumed" }
    /\ qj[r].pc \in { "returned", "consumed" } =>
         /\ qj[r].out.exc = "none"
         /\ Truthy(qj[r].out.val)
         /\ qj[r].attempt + 1 <= max_retries + 1
         /\ qj[r].calls - (qj[r].attempt + 1) <= 1

\* C1 witness: every call raised, the regeneration call included, and
\* query_json returned the fallback dict
C1_Witness ==
  /\ qj[1].pc = "returned"
  /\ qj[1].all_raised
  /\ qj[1].via = "fallback"
  /\ qj[1].out.exc = "none"
  /\ qj[1].calls = max_retries + 2

\* C3: one query_json call makes at most max_retries + 2 GenerationClient
\* invocations, on every path.
C3_CallBudget ==
  \A r \in Runs : qj[r].calls <= max_retries + 2

\* C3 witness: a mixed path (some attempts returned text, others raised)
\* that used the whole budget
C3_Witness ==
  /\ qj[1].pc = "regen_after_failure"
  /\ ~qj[1].all_raised
  /\ qj[1].response.id = "emptyobj"
  /\ qj[1].calls = max_retries + 2

\* C5: query_json returns a degraded dict synthesised by the pipeline (error
\* "json_parsing_failed", not parsed from the generator's data) only after
\* all max_retries+1 attempts and the regeneration call have been made.
C5_DegradedOnlyWhenExhausted ==
  \A r \in Runs :
    ( /\ qj[r].pc = "returned"
      /\ qj[r].out.val.src # "data"
      /\ qj[r].out.val.f.error = JsonParsingFailed )
    => /\ qj[r].attempt = max_retries
       /\ qj[r].calls = max_retries + 2

\* C6: when the GenerationClient failed on every call of a stage, the stage
\* context records error_occurred and the next transition moves to ERROR.
C6_ExhaustionMovesToError ==
  last_tr.exhausted =>
    /\ last_tr.context.error_occurred
    /\ last_tr.to = ERROR

\* C4: each of two concurrent runs has its own current state and its own
\* transition log: while a run executes a stage, the machine is in the state
\* of that stage and the log holds the stages the run executed before.
C4_RunsShareNothing ==
  \A r \in Runs :
    pc[r] = "stage" =>
      /\ current_state = cur[r]
      /\ state_history = Front(state_transitions[r])

\* C7 as stated: from any non-terminal state an error flag moves the machine
\* to ERROR.
C7_ErrorFromAnyState ==
  ( /\ last_tr.from \in ReasoningState \ Terminal
    /\ last_tr.context.error_occurred \/ last_tr.context.parsing_error )
  => last_tr.to = ERROR

\* C7 amended: from any non-terminal state other than GENERATING_RESPONSE,
\* when the loop check does not fire (the log holds fewer than two entries
\* or its last entry is not the current state), an error flag moves the
\* machine to ERROR.
C7_ErrorUnlessGeneratingOrLoop ==
  ( /\ last_tr.from \in ReasoningState \ (Terminal \cup { GENERATING_RESPONSE })
    /\ ~(Len(last_tr.log) >= 2 /\ Last(last_tr.log) = last_tr.from)
    /\ last_tr.context.error_occurred \/ last_tr.context.parsing_error )
  => last_tr.to = ERROR

\* C7 witness: an error flag moved the machine from FAST_PROCESSING to ERROR
\* although the context holds a confident candidate solution
C7_Witness ==
  /\ last_tr.from = FAST_PROCESSING
  /\ last_tr.context.parsing_error
  /\ last_tr.context.fast_solution = SomeText
  /\ last_tr.to = ERROR

\* C8 as stated: whenever the log is non-empty and its last entry is the
\* current state, the transition moves to COMPLETE.
C8_LoopRuleFirst ==
  ( /\ last_tr.from \in ReasoningState
    /\ Len(last_tr.log) >= 1
    /\ Last(last_tr.log) = last_tr.from )
  => last_tr.to = COMPLETE

\* C8 amended: whenever the log holds at least two entries, its last entry
\* is the current state and the current state is not GENERATING_RESPONSE,
\* the transition moves to COMPLETE, whatever flags the context carries.
C8_LoopRuleAfterGenerating ==
  ( /\ last_tr.from \in ReasoningState \ { GENERATING_RESPONSE }
    /\ Len(last_tr.log) >= 2
    /\ Last(last_tr.log) = last_tr.from )
  => last_tr.to = COMPLETE

\* C8 witness: the loop rule won over an error flag
C8_Witness ==
  /\ last_tr.from = FAST_PROCESSING
  /\ Len(last_tr.log) >= 2
  /\ Last(last_tr.log) = FAST_PROCESSING
  /\ last_tr.context.error_occurred
  /\ last_tr.to = COMPLETE

\* C9: from FAST_PROCESSING (no loop, no error flag) the next state is
\* GENERATING_RESPONSE exactly when the context holds a candidate solution
\* and the confidence is above the threshold, and SLOW_PROCESSING otherwise.
C9_FastPass ==
  ( last_tr.from = FAST_PROCESSING /\ PlainTransition(last_tr) ) =>
    IF /\ HasCandidateSolution(last_tr.context)
       /\ ConfidenceAboveThreshold(last_tr.context)
      THEN last_tr.to = GENERATING_RESPONSE
      ELSE last_tr.to = SLOW_PROCESSING

\* C9 witness: a candidate solution whose confidence is exactly 0.6 went to
\* SLOW_PROCESSING
C9_Witness ==
  /\ last_tr.from = FAST_PROCESSING
  /\ PlainTransition(last_tr)
  /\ last_tr.context.fast_solution = SomeText
  /\ last_tr.context.confidence = 6
  /\ last_tr.to = SLOW_PROCESSING

\* C10: from SLOW_PROCESSING (no loop, no error flag) the next state is
\* CAUSAL_ANALYSIS when causal analysis is required (also when complexity
\* is high), METACOGNITIVE_EVALUATION when complexity is high and causal
\* analysis is not required, GENERATING_RESPONSE otherwise.
C10_SlowPass ==
  ( last_tr.from = SLOW_PROCESSING /\ PlainTransition(last_tr) ) =>
    last_tr.to =
      IF last_tr.context.requires_causal_analysis THEN CAUSAL_ANALYSIS
      ELSE IF HighComplexityContext(last_tr.context)
        THEN METACOGNITIVE_EVALUATION
        ELSE GENERATING_RESPONSE

\* C10 witness: causal analysis required and complexity high
C10_Witness ==
  /\ last_tr.from = SLOW_PROCESSING
  /\ PlainTransition(last_tr)
  /\ last_tr.context.requires_causal_analysis
  /\ last_tr.context.complexity_level = 4
  /\ last_tr.to = CAUSAL_ANALYSIS

\* C2: every run of reason() reaches a terminal state, and the transition
\* log never holds more than 2 x 11 entries.
C2_Terminates ==
  /\ [](Len(state_history) <= 2 * NumStates)
  /\ (pc[1] \in { "loop", "stage" }) ~> (current_state \in Terminal)

\* C2 witness: the longest run, through all nine stages, is complete
C2_Witness ==
  /\ pc[1] = "compliance"
  /\ current_state = COMPLETE
  /\ Len(state_history) = 9

\* C11: from CAUSAL_ANALYSIS (no loop, no error flag) the next state is
\* METACOGNITIVE_EVALUATION when complexity is high and GENERATING_RESPONSE
\* otherwise.
C11_CausalPass ==
  ( last_tr.from = CAUSAL_ANALYSIS /\ PlainTransition(last_tr) ) =>
    last_tr.to = IF HighComplexityContext(last_tr.context)
                   THEN METACOGNITIVE_EVALUATION
                   ELSE GENERATING_RESPONSE

\* C11 witness: complexity exactly 4 went from CAUSAL_ANALYSIS to
\* METACOGNITIVE_EVALUATION
C11_Witness ==
  /\ last_tr.from = CAUSAL_ANALYSIS
  /\ PlainTransition(last_tr)
  /\ last_tr.context.complexity_level = 4
  /\ last_tr.to = METACOGNITIVE_EVALUATION

\* C12: without loop and without error flag, for every context: IDLE goes
\* to PARSING_INPUT, PARSING_INPUT to REPRESENTATION_MAPPING,
\* REPRESENTATION_MAPPING to FAST_PROCESSING, METACOGNITIVE_EVALUATION to
\* GENERATING_RESPONSE and SELF_VERIFICATION to COMPLETE.
C12_UnconditionalRows ==
  PlainTransition(last_tr) =>
    /\ last_tr.from = IDLE => last_tr.to = PARSING_INPUT
    /\ last_tr.from = PARSING_INPUT => last_tr.to = REPRESENTATION_MAPPING
    /\ last_tr.from = REPRESENTATION_MAPPING => last_tr.to = FAST_PROCESSING
    /\ last_tr.from = METACOGNITIVE_EVALUATION =>
         last_tr.to = GENERATING_RESPONSE
    /\ last_tr.from = SELF_VERIFICATION => last_tr.to = COMPLETE

\* C12 witness: PARSING_INPUT went to REPRESENTATION_MAPPING although the
\* context already holds a confident candidate solution
C12_Witness ==
  /\ last_tr.from = PARSING_INPUT
  /\ PlainTransition(last_tr)
  /\ HasCandidateSolution(last_tr.context)
  /\ ConfidenceAboveThreshold(last_tr.context)
  /\ last_tr.to = REPRESENTATION_MAPPING

\* C13: from GENERATING_RESPONSE the next state is always
\* SELF_VERIFICATION, for every context and every transition log.
C13_GeneratingToVerification ==
  last_tr.from = GENERATING_RESPONSE => last_tr.to = SELF_VERIFICATION

\* C13 witness: GENERATING_RESPONSE went to SELF_VERIFICATION with the loop
\* condition true (two entries, the last one GENERATING_RESPONSE) and an
\* error flag set
C13_Witness ==
  /\ last_tr.from = GENERATING_RESPONSE
  /\ Len(last_tr.log) >= 2
  /\ Last(last_tr.log) = GENERATING_RESPONSE
  /\ last_tr.context.parsing_error
  /\ last_tr.to = SELF_VERIFICATION

\* two contexts agree on what the transition table is specified to read
AgreeOnDerived(c1, c2) ==
  /\ HasCandidateSolution(c1) = HasCandidateSolution(c2)
  /\ ConfidenceAboveThreshold(c1) = ConfidenceAboveThreshold(c2)
  /\ HighComplexityContext(c1) = HighComplexityContext(c2)
  /\ c1.requires_causal_analysis = c2.requires_causal_analysis
  /\ c1.error_occurred = c2.error_occurred
  /\ c1.parsing_error = c2.parsing_error

\* some run's query_json activation issues a call of the GenerationClient
\* in the step
ClientCalled ==
  \E r \in Runs : qj'[r].calls > qj[r].calls

\* C14: the next state is a function of the current state, the transition
\* log and the derived booleans of the context (candidate solution,
\* confidence above threshold, high complexity, causal analysis required,
\* error flags): a machine in the same state with the same log and any
\* context that agrees on them moves to the same state; and no step that
\* makes a transition calls the GenerationClient.
C14_Deterministic ==
  /\ [] ( last_tr.from \in ReasoningState =>
            \A c \in HarnessContexts :
              AgreeOnDerived(c, last_tr.context) =>
                transition_to_next_state(last_tr.from, last_tr.log,
                                         c).current_state = last_tr.to )
  /\ [][ last_tr' # last_tr => ~ClientCalled ]_vars

\* C14 witness: a transition from FAST_PROCESSING to GENERATING_RESPONSE
\* made with a context without the key confidence, which agrees with a
\* different context that carries a confidence above the threshold
C14_Witness ==
  /\ last_tr.from = FAST_PROCESSING
  /\ last_tr.context.confidence = Absent
  /\ last_tr.context.fast_solution = SomeText
  /\ last_tr.to = GENERATING_RESPONSE
  /\ \E c \in HarnessContexts :
       /\ c.confidence = 7
       /\ AgreeOnDerived(c, last_tr.context)

\* C15: once the machine of a run is in COMPLETE or ERROR, it stays in that
\* state with the same log until the next run resets it, and no stage is
\* executed any more (none is retried after ERROR).
C15_TerminalIsFinal ==
  [][ ( current_state \in Terminal /\ started' = started ) =>
        /\ current_state' = current_state
        /\ state_history' = state_history
        /\ state_transitions' = state_transitions
        /\ \A r \in Runs : pc'[r] # "stage" ]_vars

\* C15 witness: a run entered ERROR after its PARSING_INPUT stage and has
\* returned, with no stage executed after PARSING_INPUT
C15_Witness ==
  /\ current_state = ERROR
  /\ pc[1] = "done"
  /\ result[1].returned
  /\ Last(state_transitions[1]) = PARSING_INPUT

\* C16: the result of a run that ended in ERROR holds the failure reason:
\* solution "Error: <reason>" and confidence 0.0.
C16_ErrorReported ==
  \A r \in Runs :
    ( result[r].returned /\ current_state = ERROR ) =>
      /\ result[r].solution = ErrorReason
      /\ result[r].confidence = 0

\* the machine has been put back into FAST_PROCESSING right after
\* FAST_PROCESSING was logged
FastRevisit ==
  /\ current_state = FAST_PROCESSING
  /\ state_history # << >>
  /\ Last(state_history) = FAST_PROCESSING

NoDuplicates(seq) ==
  \A i, j \in 1..Len(seq) : seq[i] = seq[j] => i = j

\* C18: within one run the stages executed are exactly the states the
\* machine was in, in order and once each: while a stage runs the machine is
\* in its state and the log holds the stages executed before; after the
\* transition the log equals the list of executed stages, and the
\* transition was evaluated on the context that already holds the record
\* of the stage.
C18_StagesFollowTransitions ==
  pc[1] \in { "loop", "stage", "compliance", "done" } =>
    /\ NoDuplicates(state_transitions[1])
    /\ pc[1] = "stage" =>
         /\ current_state = cur[1]
         /\ Last(state_transitions[1]) = cur[1]
         /\ state_history = Front(state_transitions[1])
    /\ pc[1] # "stage" => state_history = state_transitions[1]
    /\ ( pc[1] # "stage" /\ last_tr.from \in ReasoningState ) =>
         /\ last_tr.from = Last(state_transitions[1])
         /\ last_tr.context = sm_context[1]
         /\ last_tr.from = FAST_PROCESSING =>
              last_tr.context.fast_solution # Absent
         /\ last_tr.from = SLOW_PROCESSING =>
              last_tr.context.slow_solution # Absent
         /\ last_tr.from = GENERATING_RESPONSE =>
              last_tr.context.final_solution # Absent

\* C18 witness: the record returned to the FAST_PROCESSING stage (a
\* solution with confidence 0.9) decided the transition that followed it
C18_Witness ==
  /\ pc[1] = "loop"
  /\ last_tr.from = FAST_PROCESSING
  /\ last_tr.context.fast_solution = SomeText
  /\ last_tr.context.confidence = 9
  /\ last_tr.to = GENERATING_RESPONSE
  /\ state_transitions[1] =
       << IDLE, PARSING_INPUT, REPRESENTATION_MAPPING, FAST_PROCESSING >>

\* C19: when no strategy succeeds on the text of attempt i, query_json
\* does not return and does not call the client again within the attempt:
\* for i < max_retries it sleeps and then makes attempt i+1 with one new
\* call; for i = max_retries it makes one regeneration call, after which
\* it returns without any further attempt or call.
C19_ParseFailureStep ==
  [][ LET f == qj[1]
          g == qj'[1]
      IN  /\ ( f.pc = "awaiting" /\ g # f ) =>
                /\ g.pc \in { "returned", "sleeping", "regen_after_parse",
                              "regen_after_failure" }
                /\ g.pc = "returned" =>
                     /\ g.via = "strategy"
                     /\ g.calls = f.calls
                /\ g.pc = "sleeping" =>
                     /\ f.attempt < max_retries
                     /\ g.attempt = f.attempt
                     /\ g.calls = f.calls
                /\ g.pc = "regen_after_parse" =>
                     /\ try_strategies(g.response, 1).status = "failed"
                     /\ f.attempt = max_retries
                     /\ g.attempt = f.attempt
                     /\ g.calls = f.calls + 1
          /\ ( f.pc = "sleeping" /\ g # f ) =>
                /\ g.pc = "awaiting"
                /\ g.attempt = f.attempt + 1
                /\ g.calls = f.calls + 1
          /\ ( f.pc = "regen_after_parse" /\ g # f ) =>
                /\ g.pc = "returned"
                /\ g.attempt = f.attempt
                /\ g.calls = f.calls ]_vars

\* C19 witness: every strategy failed on the text of the last attempt and
\* the one regeneration call is in flight
C19_Witness ==
  /\ qj[1].pc = "regen_after_parse"
  /\ try_strategies(qj[1].response, 1).status = "failed"
  /\ qj[1].attempt = max_retries
  /\ qj[1].calls = max_retries + 2

\* C20: a call of the client that raises on attempt i < max_retries does
\* not end query_json: the call sleeps and makes attempt i+1; the
\* regeneration call after a query failure is made only when the last
\* attempt has failed, and query_json then returns the regenerated record
\* or the fallback.
C20_QueryFailureStep ==
  [][ LET f == qj[1]
          g == qj'[1]
      IN  /\ ( f.pc = "awaiting" /\ g # f /\ f.attempt < max_retries ) =>
                /\ g.pc \in { "sleeping", "returned" }
                /\ g.out.exc = "none"
                /\ g.via # "fallback"
                /\ g.attempt = f.attempt
          /\ ( f.pc = "awaiting" /\ g # f /\ f.all_raised /\ g.all_raised ) =>
                IF f.attempt < max_retries
                  THEN g.pc = "sleeping"
                  ELSE g.pc = "regen_after_failure" /\ g.calls = f.calls + 1
          /\ ( f.pc = "awaiting" /\ g.pc = "regen_after_failure" ) =>
                f.attempt = max_retries
          /\ ( f.pc = "sleeping" /\ g # f ) =>
                g.pc = "awaiting" /\ g.attempt = f.attempt + 1
          /\ ( f.pc = "regen_after_failure" /\ g # f ) =>
                /\ g.pc = "returned"
                /\ g.out.exc = "none"
                /\ g.via \in { "regeneration", "fallback" }
                /\ g.calls = f.calls ]_vars

\* C20 witness: the call of attempt 0 raised and the call of attempt 1 has
\* been issued
C20_Witness ==
  /\ qj[1].pc = "awaiting"
  /\ qj[1].all_raised
  /\ qj[1].attempt = 1
  /\ qj[1].calls = 2

\* C21: within one query_json call the attempt indices are 0, 1, 2, ...:
\* the index only grows, by one, and only when the sleep that follows a
\* finished attempt is over; every index is used for exactly one call of the
\* client, and an attempt's call is issued only after the call of the
\* attempt before it has returned or failed and its text has been parsed.
C21_AttemptsInOrder ==
  /\ [](\A r \in Runs :
          qj[r].pc \in { "awaiting", "sleeping" } =>
            qj[r].calls = qj[r].attempt + 1)
  /\ [][ LET f == qj[1]
             g == qj'[1]
         IN  /\ f.pc \in { "none", "consumed" } /\ g # f =>
                  g.pc = "awaiting" /\ g.attempt = 0
             /\ f.pc \in { "awaiting", "sleeping", "regen_after_parse",
                           "regen_after_failure" } =>
                  /\ g.attempt \in { f.attempt, f.attempt + 1 }
                  /\ g.attempt = f.attempt + 1 <=>
                       f.pc = "sleeping" /\ g.pc = "awaiting"
                  /\ f.pc = "awaiting" /\ g # f => g.pc # "awaiting"
                  /\ g.pc = "sleeping" => f.pc \in { "awaiting", "sleeping" }
       ]_vars

\* C21 witness: the last attempt's call is in flight after attempts of which
\* at least one returned a text that did not parse
C21_Witness ==
  /\ qj[1].pc = "awaiting"
  /\ ~qj[1].all_raised
  /\ qj[1].attempt = max_retries
  /\ qj[1].calls = max_retries + 1

\* the strategy with index k is the first one that yields a non-empty dict
\* on text t, and v is what it yields
FirstSuccess(t, k, v) ==
  /\ k \in 1..NumStrategies
  /\ \A j \in 1..(k - 1) :
       LET r == parsing_strategies(j, t)
       IN  r.exc # "none" \/ ~Truthy(r.val)
  /\ parsing_strategies(k, t) = Ok(v)
  /\ Truthy(v)

\* C22: on each attempt the strategies are applied to the returned text in
\* the order of the list, and what query_json returns from the attempt is
\* the result of the first strategy that yields a non-empty dict: no later
\* strategy's result and no earlier strategy's result is used.
C22_FirstSuccessWins ==
  [][ LET f == qj[1]
          g == qj'[1]
      IN  ( f.pc = "awaiting" /\ g.pc = "returned" /\ g.via = "strategy" ) =>
            \E t \in Texts :
              /\ g = on_response([ f EXCEPT !.all_raised = FALSE ], t)
              /\ FirstSuccess(t, g.strategy, g.out.val) ]_vars

\* C22 witness: strategies 1 to 4 failed on the text and strategy 5 returned
\* the object
C22_Witness ==
  /\ qj[1].pc = "returned"
  /\ qj[1].via = "strategy"
  /\ qj[1].strategy = 5
  /\ qj[1].out.val.src = "data"

\* C23: when every attempt and the regeneration call have failed, the dict
\* query_json returns is the one built by _create_fallback_response and it
\* holds the key error; a dict from the fallback builder is returned in no
\* other case.
C23_ExhaustionYieldsFallback ==
  \A r \in Runs :
    qj[r].pc = "returned" =>
      /\ ( qj[r].calls = max_retries + 2 /\ qj[r].via # "regeneration" ) =>
           /\ qj[r].via = "fallback"
           /\ qj[r].out.exc = "none"
           /\ qj[r].out.val.src = "fallback"
           /\ qj[r].out.val.f.error = JsonParsingFailed
      /\ qj[r].via = "fallback" =>
           /\ qj[r].attempt = max_retries
           /\ qj[r].calls = max_retries + 2
           /\ qj[r].out.val.f.error = JsonParsingFailed

\* C23 witness: the attempts returned text that no strategy parsed, the
\* regenerated text did not parse either, and the fallback dict carries the
\* confidence found in the raw text of the last attempt
C23_Witness ==
  /\ qj[1].pc = "returned"
  /\ qj[1].via = "fallback"
  /\ ~qj[1].all_raised
  /\ qj[1].out.val.f.error = JsonParsingFailed
  /\ qj[1].out.val.f.confidence = 9

\* C24: the call of attempt i is made with max tokens 2000 + 1000*i, so the
\* allowance grows from each attempt to the next one.
C24_TokenAllowance ==
  /\ [](\A r \in Runs :
          qj[r].pc \in { "awaiting", "sleeping" } =>
            qj[r].max_tokens = 2000 + 1000 * qj[r].attempt)
  /\ [][ qj[1].pc = "sleeping" /\ qj'[1].pc = "awaiting" =>
           qj'[1].max_tokens > qj[1].max_tokens ]_vars

\* C24 witness: the call of the last attempt is in flight with 5000 tokens
C24_Witness ==
  /\ qj[1].pc = "awaiting"
  /\ qj[1].attempt = max_retries
  /\ qj[1].max_tokens = 5000

\* C30: the text returned by the regeneration call goes through the whole
\* list of strategies, in the order of a normal attempt, on the path after a
\* parse failure and on the path after a query failure: whenever a strategy
\* of the list yields a non-empty dict on the regenerated text, query_json
\* returns that dict and not the fallback.
C30_RegenerationRunsAllStrategies ==
  \A r \in Runs :
    qj[r].pc \in { "regen_after_parse", "regen_after_failure" } =>
      \A t \in Texts :
        LET g == IF qj[r].pc = "regen_after_parse"
                   THEN on_regenerated_after_parse(qj[r], t)
                   ELSE on_regenerated_after_failure(qj[r], t)
            s == try_strategies(t, 1)
        IN  s.status = "found" =>
              /\ g.via = "regeneration"
              /\ g.out.val = s.val

\* the keys of the record that the handler of a stage reads (with a
\* default) among the keys that steer the run
RequiredFields(stage) ==
  CASE stage = PARSING_INPUT -> { "complexity_level" }
    [] stage = FAST_PROCESSING -> { "solution", "confidence" }
    [] stage = SLOW_PROCESSING -> { "solution", "confidence" }
    [] stage = METACOGNITIVE_EVALUATION -> { "confidence_assessment" }
    [] stage = GENERATING_RESPONSE -> { "final_solution", "confidence" }
    [] OTHER -> { }

\* C26: a record that query_json returns to a stage from an extraction
\* strategy, parsed from the generator's text and not built by the fallback
\* builder, holds every key that the handler of the stage reads.
C26_StageFieldsPresent ==
  \A r \in Runs :
    ( /\ pc[r] = "stage"
      /\ qj[r].pc = "returned"
      /\ qj[r].out.exc = "none"
      /\ qj[r].via \in { "strategy", "regeneration" }
      /\ qj[r].out.val.src = "data" )
    => \A k \in RequiredFields(cur[r]) : qj[r].out.val.f[k] # Absent

\* what holds of position i of a text scanned from start: the character
\* lies inside a double-quoted string, and it is escaped by a backslash
RECURSIVE Mode(_, _, _)
Mode(t, start, i) ==
  IF i = start
    THEN [ quoted |-> FALSE, escaped |-> FALSE ]
    ELSE LET m == Mode(t, start, i - 1)
         IN  [ quoted |-> IF m.quoted
                            THEN ~(t[i - 1] = "\"" /\ ~m.escaped)
                            ELSE t[i - 1] = "\"",
               escaped |-> m.quoted /\ ~m.escaped /\ t[i - 1] = "\\" ]

\* the nesting depth after position i: braces outside strings, opened minus
\* closed
Depth(t, start, i) ==
  Cardinality({ j \in start..i : t[j] = "{" /\ ~Mode(t, start, j).quoted })
    - Cardinality({ j \in start..i :
                      t[j] = "}" /\ ~Mode(t, start, j).quoted })

\* the first brace outside any string that brings the depth back to zero
ClosingBrace(t, start) ==
  LET closes == { i \in start..Len(t) :
                    /\ t[i] = "}"
                    /\ ~Mode(t, start, i).quoted
                    /\ Depth(t, start, i) = 0 }
  IN  IF closes = { } THEN 0
      ELSE CHOOSE i \in closes : \A j \in closes : i <= j

\* C27: _extract_json_object selects the span from the first '{' to the
\* first '}' that closes it at depth zero outside any double-quoted string,
\* backslash escapes honoured, and raises when there is none; text that
\* follows the span changes neither end of it; for the text
\* {"a": "a } a"} followed by prose it selects exactly that object.
C27_StringAwareSpan ==
  outcome # NoOutcome =>
    LET start == find(text, "{")
        end == IF start = 0 THEN 0 ELSE ClosingBrace(text, start)
    IN  /\ outcome.start_idx = start
        /\ outcome.end_idx = end
        /\ outcome.exc = IF end = 0 THEN "ValueError" ELSE "none"
        /\ end # 0 =>
             /\ outcome.json_str = SubSeq(text, start, end)
             /\ \A tail \in BoundedTexts(ScanChars, 2) :
                  find_json_str(text \o tail) = outcome
        /\ text = ExampleText => outcome.json_str = ExampleObject

\* C27 witness: the scan went past a closing brace inside a string value
\* and selected a span that is followed by more text
C27_Witness ==
  /\ outcome # NoOutcome
  /\ outcome.exc = "none"
  /\ outcome.end_idx < Len(text)
  /\ \E i \in outcome.start_idx..outcome.end_idx :
       text[i] = "}" /\ Mode(text, outcome.start_idx, i).quoted

\* C29: the repair is idempotent: repairing a repaired text leaves it as it
\* is, for every text.
C29_RepairIdempotent ==
  ( outcome # NoOutcome /\ outcome.applications = 2 ) =>
    outcome.json_str = outcome.previous

\* C28: for the response text that is a json code fence around
\* {'solution': 'ok', confidence: 0.9,}, query_json returns
\* {"solution": "ok", "confidence": 0.9} on the first attempt, and the
\* strategy that produces it is strategy 5, the repair-and-parse strategy.
C28_FencedRepairResolves ==
  \A r \in Runs :
    ( qj[r].pc = "awaiting" /\ qj[r].attempt = 0 ) =>
      LET g == on_response(qj[r], T_fence_repair)
      IN  /\ g.pc = "returned"
          /\ g.out = Ok(Dict("data", D_ok))
          /\ g.strategy = 5

\* C25 as stated: _create_fallback_response cannot fail for any text, the
\* empty one included, and returns a record whose defaults are every
\* boolean false, every score 0.0, an error marker and the first 500
\* characters of the raw text; a default is overwritten only when a
\* confidence-like number or a solution-like string is found in the text.
C25_FallbackDefaults ==
  outcome # NoOutcome =>
    LET v == outcome.val
    IN  /\ v.exc = "none"
        /\ \A k \in BooleanKeys : v.flags[k] = FALSE
        /\ \A k \in ScoreKeys : v.scores[k] = 0
        /\ v.error = JsonParsingFailed
        /\ v.original_response =
             [ of |-> "original_response",
               len |-> IF text.len < FallbackLimit
                         THEN text.len ELSE FallbackLimit ]
        /\ v.reasoning_steps = FallbackSteps
        /\ ( text.conf_hint = Absent /\ text.sol_hint = Absent ) =>
             /\ v.confidence = 1
             /\ v.solution = FallbackSolution

\* C25, amended: _create_fallback_response cannot fail for any text and
\* returns a record with the error marker; original_response is the first
\* 500 characters of a non-empty text and "No response" for the empty one;
\* every boolean is false except should_revise, which is true; every score
\* is 0.0 except reasoning_quality_score and metacognitive_score, which are
\* 0.1; confidence is 0.1 unless a number follows confidence or score, and
\* then that number clamped to [0, 1]; solution and reasoning_steps keep
\* their defaults unless the text holds a solution or a steps text, and
\* they keep them as well when the number found is malformed.
C25_FallbackDefaultsAmended ==
  outcome # NoOutcome =>
    LET v == outcome.val
        malformed == text.conf_hint = NotANumber
    IN  /\ v.exc = "none"
        /\ v.error = JsonParsingFailed
        /\ v.original_response.len <= FallbackLimit
        /\ IF text.len = 0
             THEN v.original_response.of = "No response"
             ELSE v.original_response =
                    [ of |-> "original_response",
                      len |-> IF text.len < FallbackLimit
                                THEN text.len ELSE FallbackLimit ]
        /\ \A k \in BooleanKeys : v.flags[k] = ( k = "should_revise" )
        /\ \A k \in ScoreKeys :
             v.scores[k] =
               IF k \in { "reasoning_quality_score", "metacognitive_score" }
                 THEN 1 ELSE 0
        /\ v.confidence =
             IF text.conf_hint < 0 THEN 1
             ELSE IF text.conf_hint > 10 THEN 10
             ELSE text.conf_hint
        /\ v.solution =
             IF ~malformed /\ text.sol_hint # Absent
               THEN text.sol_hint ELSE FallbackSolution
        /\ v.reasoning_steps =
             IF ~malformed /\ text.steps_hint # Absent
               THEN text.steps_hint ELSE FallbackSteps

\* C25 witness: the function has returned for a text longer than 500
\* characters that holds a number above 1.0, a solution and a steps text:
\* the text is cut, the number clamped, both texts taken over
C25_Witness ==
  /\ outcome # NoOutcome
  /\ text.len > FallbackLimit
  /\ text.conf_hint > 10
  /\ outcome.val.original_response.len = FallbackLimit
  /\ outcome.val.confidence = 10
  /\ outcome.val.solution = SomeText
  /\ outcome.val.reasoning_steps = SomeText

\* C31: the transition log is append-only: every call of
\* transition_to_next_state adds exactly one entry, the state the machine
\* was in before the call, and leaves the entries before it as they were;
\* no other step changes the log except reset, which empties it. So the
\* log grows by one per transition and entry j is the state left by
\* transition j.
C31_LogAppendOnly ==
  [][ /\ ( last_tr' # NoTransition /\ last_tr' # last_tr ) =>
           /\ state_history' = Append(state_history, current_state)
           /\ Len(state_history') = Len(state_history) + 1
           /\ SubSeq(state_history', 1, Len(state_history)) = state_history
           /\ last_tr'.from = current_state
           /\ last_tr'.log = state_history
      /\ ~( last_tr' # NoTransition /\ last_tr' # last_tr ) =>
           \/ state_history' = state_history
           \/ state_history' = << >> ]_vars

\* C31 witness: three transitions since reset, the last one the forced
\* completion of the loop rule: the log holds three entries, the first two
\* as they were before the call and the third the state that was left
C31_Witness ==
  /\ Len(state_history) = 3
  /\ last_tr # NoTransition
  /\ loop_detected(last_tr.from, last_tr.log)
  /\ last_tr.from # GENERATING_RESPONSE
  /\ last_tr.to = COMPLETE
  /\ state_history = Append(last_tr.log, last_tr.from)

\* C32: in a run of reason() that is not interleaved with another one, no
\* state is entered twice: the states logged and the current state are all
\* different, so the current state never equals the last logged state and
\* no transition of the run is the forced completion of the loop rule.
C32_NoStateTwice ==
  pc[1] \in { "loop", "stage", "compliance", "done" } =>
    /\ NoDuplicates(Append(state_history, current_state))
    /\ state_history # << >> =>
         current_state # state_history[Len(state_history)]
    /\ last_tr.from \in ReasoningState =>
         ~loop_detected(last_tr.from, last_tr.log)

\* C32 witness: a run went through every stage, the causal analysis and
\* the metacognitive evaluation included, and is COMPLETE
C32_Witness ==
  /\ pc[1] = "done"
  /\ current_state = COMPLETE
  /\ state_history =
       << IDLE, PARSING_INPUT, REPRESENTATION_MAPPING, FAST_PROCESSING,
          SLOW_PROCESSING, CAUSAL_ANALYSIS, METACOGNITIVE_EVALUATION,
          GENERATING_RESPONSE, SELF_VERIFICATION >>

\* C33: in a run of reason(), COMPLETE is entered only from
\* SELF_VERIFICATION and SELF_VERIFICATION only from GENERATING_RESPONSE:
\* a run that is in COMPLETE has executed the GENERATING_RESPONSE stage and
\* then the SELF_VERIFICATION stage as its last two stages, each of them
\* once.
C33_CompleteAfterVerification ==
  pc[1] \in { "loop", "stage", "compliance", "done" } =>
    /\ last_tr.to = COMPLETE => last_tr.from = SELF_VERIFICATION
    /\ last_tr.to = SELF_VERIFICATION => last_tr.from = GENERATING_RESPONSE
    /\ current_state = COMPLETE =>
         LET st == state_transitions[1]
             n == Len(st)
         IN  /\ n >= 2
             /\ st[n] = SELF_VERIFICATION
             /\ st[n - 1] = GENERATING_RESPONSE
             /\ \A i \in 1..n :
                  /\ st[i] = SELF_VERIFICATION => i = n
                  /\ st[i] = GENERATING_RESPONSE => i = n - 1

\* C33 witness: a run whose fast pass was accepted has returned in
\* COMPLETE, with the response generated and verified as its last stages
C33_Witness ==
  /\ pc[1] = "done"
  /\ result[1].returned
  /\ current_state = COMPLETE
  /\ last_tr.from = SELF_VERIFICATION
  /\ state_transitions[1] =
       << IDLE, PARSING_INPUT, REPRESENTATION_MAPPING, FAST_PROCESSING,
          GENERATING_RESPONSE, SELF_VERIFICATION >>

\* C34: in a run of reason(), CAUSAL_ANALYSIS is entered only from
\* SLOW_PROCESSING and only with requires_causal_analysis true at that
\* transition, so its stage runs right after the slow stage;
\* METACOGNITIVE_EVALUATION is entered only with a complexity level of 4 or
\* more at that transition; and a fast pass that is accepted (candidate
\* solution, confidence above 0.6) leads to GENERATING_RESPONSE, in a run
\* that executes none of SLOW_PROCESSING, CAUSAL_ANALYSIS,
\* METACOGNITIVE_EVALUATION.
C34_OptionalStagesGuarded ==
  pc[1] \in { "loop", "stage", "compliance", "done" } =>
    LET st == state_transitions[1]
        Executed(s) == \E i \in 1..Len(st) : st[i] = s
    IN  /\ last_tr.to = CAUSAL_ANALYSIS =>
             /\ last_tr.from = SLOW_PROCESSING
             /\ last_tr.context.requires_causal_analysis
        /\ last_tr.to = METACOGNITIVE_EVALUATION =>
             /\ last_tr.from \in { SLOW_PROCESSING, CAUSAL_ANALYSIS }
             /\ HighComplexityContext(last_tr.context)
        /\ \A i \in 1..Len(st) :
             /\ st[i] = CAUSAL_ANALYSIS =>
                  i > 1 /\ st[i - 1] = SLOW_PROCESSING
             /\ st[i] = METACOGNITIVE_EVALUATION =>
                  i > 1 /\ st[i - 1] \in { SLOW_PROCESSING, CAUSAL_ANALYSIS }
        /\ ( /\ last_tr.from = FAST_PROCESSING
             /\ PlainTransition(last_tr)
             /\ HasCandidateSolution(last_tr.context)
             /\ ConfidenceAboveThreshold(last_tr.context) ) =>
             last_tr.to = GENERATING_RESPONSE
        /\ ( \E i \in 1..(Len(st) - 1) :
               st[i] = FAST_PROCESSING /\ st[i + 1] = GENERATING_RESPONSE ) =>
             /\ ~Executed(SLOW_PROCESSING)
             /\ ~Executed(CAUSAL_ANALYSIS)
             /\ ~Executed(METACOGNITIVE_EVALUATION)

\* C34 witness: the slow pass of a run with requires_causal_analysis and a
\* complexity level of 4 or more was followed by the causal analysis, and
\* the causal analysis by the metacognitive evaluation
C34_Witness ==
  /\ pc[1] = "loop"
  /\ last_tr.from = CAUSAL_ANALYSIS
  /\ last_tr.to = METACOGNITIVE_EVALUATION
  /\ last_tr.context.requires_causal_analysis
  /\ last_tr.context.complexity_level >= HighComplexity
  /\ state_transitions[1] =
       << IDLE, PARSING_INPUT, REPRESENTATION_MAPPING, FAST_PROCESSING,
          SLOW_PROCESSING, CAUSAL_ANALYSIS >>

\* C35: in query_json a strategy counts as successful only if it yields a
\* non-empty dict. A strategy that yields an empty object or a value that
\* is no dict is passed over like one that raised: the value returned by a
\* strategy is a non-empty dict and no strategy before it yielded one; a
\* text on which every strategy raises or yields such a value makes the
\* attempt fail (the delay and the next attempt, or the regeneration call
\* after the last attempt), and as a regenerated text it is not returned
\* either.
C35_OnlyNonEmptyDictCounts ==
  \A r \in Runs :
    qj[r].pc = "awaiting" =>
      \A t \in Texts :
        LET g == on_response(qj[r], t)
            Yields(i) == parsing_strategies(i, t)
            Dud(i) ==
              \/ Yields(i).exc \in CaughtByStrategyLoop
              \/ /\ Yields(i).exc = "none"
                 /\ Yields(i).val.tag \in { "emptydict", "nondict", "none" }
            h == on_regenerated_after_parse(
                   [ qj[r] EXCEPT !.pc = "regen_after_parse" ], t)
        IN  /\ ( g.pc = "returned" /\ g.via = "strategy" ) =>
                 /\ g.out.val.tag = "dict"
                 /\ g.out = Yields(g.strategy)
                 /\ \A i \in 1..(g.strategy - 1) : Dud(i)
            /\ ( \A i \in 1..NumStrategies : Dud(i) ) =>
                 /\ g.pc = IF qj[r].attempt < max_retries
                             THEN "sleeping" ELSE "regen_after_parse"
                 /\ g.response = t
                 /\ g.out = qj[r].out
                 /\ h.pc = "returned" /\ h.via = "fallback"
                 /\ h.out.val.tag = "dict"

\* C35 witness: the text {} was received on the last attempt: every
\* strategy yielded an empty dict, nothing was returned and the
\* regeneration call is in flight
C35_Witness ==
  \E r \in Runs :
    /\ qj[r].pc = "regen_after_parse"
    /\ qj[r].attempt = max_retries
    /\ qj[r].response = T_emptyobj
    /\ \A i \in 1..NumStrategies \ { 4 } :
         parsing_strategies(i, T_emptyobj).val.tag = "emptydict"

\* C36: every run of reason() starts from IDLE with an empty transition
\* log: the entry of reason() resets the machine, whatever state and log
\* the run before it left. So a run that follows another one on the same
\* engine executes IDLE first, and the log holds nothing but the stages of
\* the run itself.
C36_RunStartsFresh ==
  /\ [][ started' # started =>
           /\ current_state' = IDLE
           /\ state_history' = << >>
           /\ state_transitions'[1] = << >> ]_vars
  /\ [] ( pc[1] \in { "loop", "stage", "compliance" } =>
            LET st == state_transitions[1]
            IN  /\ st = << >> => current_state = IDLE
                /\ st # << >> => st[1] = IDLE
                /\ Len(state_history) <= Len(st)
                /\ \A i \in 1..Len(state_history) : state_history[i] = st[i] )

\* C36 witness: the second run on the engine has executed its IDLE stage
\* and nothing else: the log holds IDLE alone
C36_Witness ==
  /\ started = 2
  /\ pc[1] = "loop"
  /\ current_state = PARSING_INPUT
  /\ state_history = << IDLE >>
  /\ state_transitions[1] = << IDLE >>

C38_FallbackConfidenceInRange ==
  ( outcome # NoOutcome /\ outcome.fn = "_create_fallback_response" ) =>
    /\ outcome.val.confidence \in 0..10
    /\ text.conf_hint \in 0..10 => outcome.val.confidence = text.conf_hint
    /\ text.conf_hint \in { Absent, NotANumber } =>
         outcome.val.confidence = 1

\* C38 witness: the raw text holds nothing but a number above 1.0 after
\* confidence, and the record returned has confidence 1.0
C38_Witness ==
  /\ outcome # NoOutcome
  /\ text.conf_hint = 25
  /\ text.sol_hint = Absent
  /\ text.steps_hint = Absent
  /\ outcome.val.confidence = 10

====
